--------------------------- MODULE MCMailboxSync ----------------------------
(* Instances of the mailbox sync: one account with an alias that is in use *)
(* and one that is created meanwhile.                                      *)
EXTENDS MailboxSync

CONSTANTS x, y

ToX == {{x}}
ToBoth == {{x, y}}
=============================================================================
