----------------------------- MODULE MCImapSync -----------------------------
(* TLC instances of ImapSync.  Every run uses one CRITICAL message, one    *)
(* that is replaced by a protected copy, and at most one plain message.    *)
EXTENDS ImapSync, TLC
=============================================================================
