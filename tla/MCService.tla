------------------------------ MODULE MCService ------------------------------
(***************************************************************************)
(* The five components that share no variable, in one model: Hide My Email *)
(* service, creation scheduler, archive files, credentials and startup.    *)
(* Their product adds no behaviour to any of them, so each behaviour       *)
(* exercises one, chosen initially.                                        *)
(***************************************************************************)
EXTENDS HideMyEmail, AutoCreate, ArchiveFiles, Credentials, Startup, TLC

VARIABLE focus

HmeStep         == focus = "hme" /\ NextHme
AutoStep        == focus = "auto" /\ NextAuto
ArchiveStep     == focus = "archive" /\ NextArchive
CredentialsStep == focus = "credentials" /\ NextCredentials
StartupStep     == focus = "startup" /\ NextStartup

\* The component in focus starts anywhere, the others in one of their states.
InitService ==
    /\ focus \in {"hme", "auto", "archive", "credentials", "startup"}
    /\ InitHme /\ InitAuto /\ InitArchive /\ InitCredentials /\ InitStartup
    /\ focus # "hme" => account.type = "icloud" /\ session = None /\ selected = "none"
    /\ focus # "credentials" =>
          alias.mode = "legacy" /\ pendingKey = 0
    /\ focus # "startup" =>
          schema = 0 /\ ~legacy.present /\ environment = Unset /\ keyFile = Unset

NextService ==
    /\ UNCHANGED focus
    /\ \/ HmeStep /\ UNCHANGED <<autoVars, archiveVars, credentialVars, startupVars>>
       \/ AutoStep /\ UNCHANGED <<hmeVars, archiveVars, credentialVars, startupVars>>
       \/ ArchiveStep /\ UNCHANGED <<hmeVars, autoVars, credentialVars, startupVars>>
       \/ CredentialsStep /\ UNCHANGED <<hmeVars, autoVars, archiveVars, startupVars>>
       \/ StartupStep /\ UNCHANGED <<hmeVars, autoVars, archiveVars, credentialVars>>

ServiceSpec ==
    InitService /\ [][NextService]_<<focus, hmeVars, autoVars, archiveVars, credentialVars,
                                     startupVars>>

\* The components' actors are the same two model values, and so are their addresses
\* and messages: no behaviour has steps of two components.
Sym == Permutations(Clients) \cup Permutations(Addresses)
=============================================================================
