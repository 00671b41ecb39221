---------------------------- MODULE MCTypingSync ----------------------------
(* Small instances of TypingSync for TLC: the bounds are in the .cfg files. *)
EXTENDS TypingSync

=============================================================================
