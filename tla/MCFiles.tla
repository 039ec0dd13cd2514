------------------------------- MODULE MCFiles ------------------------------
(* The names of the files for TLC. *)
EXTENDS FileUsers

MCNames == {Value, Stats, Counter, Master} \cup 1..Sids

=============================================================================
