--------------------------- MODULE MCMessageQueue ---------------------------
(* Small instances of MessageQueue. *)
EXTENDS MessageQueue

CONSTANTS m1, m2, m3, m4, general, user

\* Every other message goes to the notification channel, as it does when the
\* bot writes to NOTIFICATION_CHANNEL and to watchlist users in turn.
MCChannelOf ==
    [m \in Message |-> IF m \in {m1, m2, m4} THEN general ELSE user]

MCHeader == {0, 2}
=============================================================================
