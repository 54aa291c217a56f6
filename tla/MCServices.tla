----------------------------- MODULE MCServices -----------------------------
(* Instances of NameServer for TLC. *)
EXTENDS NameServer

\* One client greets and asks; the other may say goodbye or send half requests.
MCSays    == [c \in Conns |-> IF c = 1 THEN {"hello", "req"} ELSE {"hello", "bye", "head", "tail"}]
MCMaxSaid == [c \in Conns |-> 3]

=============================================================================
