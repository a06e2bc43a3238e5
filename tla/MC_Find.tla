------------------------------- MODULE MC_Find -------------------------------
(* Small instances of FindSession for TLC. *)
EXTENDS FindSession

CONSTANTS local, remote

Panes == {local, remote}

\* typed one key at a time: "n", and "/"; Tab completes "/" to "/n/"
Keys == {<<Empty, "n">>, <<Empty, "/">>}
BothWays == Keys \cup {<<k[2], k[1]>> : k \in Keys}

\* "/n/" drills one level; "/" lists "/".
OneLevel == [q \in Find |-> IF q = "/n/" THEN 2 ELSE 1]
===============================================================================
