---------------------------- MODULE MCAnswerJobs ----------------------------
(* Small instances of AnswerJobs for TLC: a phone, and the host's own window. *)
EXTENDS AnswerJobs, TLC

CONSTANTS phone, host, first, second

PhoneAndHost == {phone, host}
OnlyHost == {host}
FirstAndSecond == {first, second}
OnlyFirst == {first}
=============================================================================
