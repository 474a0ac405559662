------------------------------ MODULE MCProcess ------------------------------
(* The process, one part of it at a time; the initial state decides which,    *)
(* and the others stay where they are.                                        *)
(*   settings    Config: environments of up to two variables, or of up to     *)
(*               four with the token of the bot among them                    *)
(*   connection  Startup, with the constants of the code                      *)
(*   process     Lifecycle, under its fairness                                *)
EXTENDS Config, Startup, Lifecycle

VARIABLE part    \* which of the three

allVars == <<part, settings, connection, vars>>

PartInit ==
    /\ part \in {"settings", "connection", "process"}
    /\ SettingsInit
    /\ ConnectionInit /\ (part # "connection" => upSince = 0)
    /\ Init /\ (part # "process" => dbUp)

PartNext ==
    \/ /\ part = "settings"
       /\ SettingsNext
       /\ edits' > 2 => env'["BOT_TOKEN"] # ""
       /\ UNCHANGED <<part, connection, vars>>
    \/ part = "connection" /\ ConnectionNext /\ UNCHANGED <<part, settings, vars>>
    \/ part = "process" /\ Next /\ UNCHANGED <<part, settings, connection>>

PartSpec == PartInit /\ [][PartNext]_allVars /\ (part = "process" => Fairness)
=============================================================================
