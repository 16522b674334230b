---------------------------- MODULE MCMailboxQuota ----------------------------
(* TLC instances of MailboxQuota: the messages are interchangeable. *)
EXTENDS MailboxQuota, TLC

MessageSymmetry == Permutations(Messages)

=============================================================================
