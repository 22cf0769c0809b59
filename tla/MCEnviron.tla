------------------------------ MODULE MCEnviron ------------------------------
(***************************************************************************)
(* Instances of Environ for TLC: one script that uses every operation on a *)
(* single name, in scopes three deep; one that fills a table with four     *)
(* names and empties it again; one between the two; one with ${a:=word} in *)
(* all scopes, over readonly, empty and array variables.                   *)
(***************************************************************************)
EXTENDS Environ

MCNames == {"a", "b", "c", "d"}

\* b, c and d start at the last slot of four, a at the first, which the probes
\* of the others reach; of eight slots c and d still share the last one.
MCHash == [n \in MCNames |-> CASE n = "a" -> 8 [] n = "b" -> 3 [] n = "c" -> 7 [] n = "d" -> 15]

MCTexts == {"", "t"}

MCHost == [n \in MCNames |-> IF n = "a" THEN "t" ELSE NULL]

MCWorkloads ==
    {[names |-> {"a"}, texts |-> MCTexts, depth |-> 3,
      ops |-> {"assign", "array", "prefix", "call", "export", "unset", "readonly",
               "local", "execute"}],
     [names |-> {"a"}, texts |-> MCTexts, depth |-> 3,
      ops |-> {"expand", "assign", "array", "prefix", "call", "readonly"}],
     [names |-> {"b", "c"}, texts |-> {"t"}, depth |-> 3,
      ops |-> {"assign", "prefix", "call", "unset", "local", "read"}],
     [names |-> MCNames, texts |-> {"t"}, depth |-> 1, ops |-> {"assign", "unset", "read"}]}

=============================================================================
