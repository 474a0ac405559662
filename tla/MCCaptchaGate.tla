--------------------------- MODULE MCCaptchaGate ---------------------------
\* Model-checking instance of CaptchaGate, and of the refinement of Captcha.
EXTENDS CaptchaGate, CaptchaRefinement, TLC

Perms == Permutations(Joins) \cup Permutations(Presses) \cup Permutations(Messages)
=============================================================================
