----------------------------- MODULE MCCaptcha -----------------------------
\* Model-checking instance of Captcha.  The joins and the press handlers are
\* interchangeable; symmetry is used only where no liveness is checked.
EXTENDS Captcha, TLC

Perms == Permutations(Joins) \cup Permutations(Presses)
=============================================================================
