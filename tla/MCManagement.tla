---------------------------- MODULE MCManagement ----------------------------
(***************************************************************************)
(* The commands of one installation of the CLI; and the account its first    *)
(* run creates on a hosted deployment.  They share no state: the commands      *)
(* take whatever a deployment answers a token with, and the account any        *)
(* requests under one.  A behaviour is one of the two, so their state spaces    *)
(* add up.                                                                   *)
(***************************************************************************)
EXTENDS CliOperations, UnclaimedAccounts

VARIABLE part

managementVars == <<part, cliVars, accountVars>>

ManagementInit ==
    /\ part \in {"commands", "account"} /\ CliInit /\ AccountsInit
    /\ part # "commands" => kind = CHOOSE k \in Kinds : TRUE

OfCommands(step) == part = "commands" /\ step /\ UNCHANGED <<part, accountVars>>
OfAccount(step)  == part = "account" /\ step /\ UNCHANGED <<part, cliVars>>

\* Hours are counted from the account's creation: nothing that is checked comes before.
FromCreation == account'.state = "none" => hour' = 0

ManagementNext == OfCommands(CliNext) \/ OfAccount(AccountsNext /\ FromCreation)

ManagementSpec ==
    /\ ManagementInit /\ [][ManagementNext]_managementVars
    /\ \A c \in Commands : WF_managementVars(OfCommands(Works(c)))
=============================================================================
