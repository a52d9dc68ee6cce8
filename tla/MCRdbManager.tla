--------------------------- MODULE MCRdbManager ---------------------------
(* Instances of RdbManager. *)
EXTENDS RdbManager

OneKey == {"k"}

TwoKeys == {"k", "m"}

\* A write that cares for the version without naming one and removes the
\* expire, one naming version 1 that leaves the expire, one naming the last
\* version before the wrap, and one from a copy, which does not care and
\* sets a short expire.
AllModes == {[ver |-> 0, care |-> TRUE, time |-> 0], [ver |-> 1, care |-> TRUE, time |-> -1],
             [ver |-> VersionMod - 1, care |-> TRUE, time |-> -1],
             [ver |-> 0, care |-> FALSE, time |-> 1]}

FewModes == {[ver |-> 0, care |-> TRUE, time |-> -1], [ver |-> 1, care |-> TRUE, time |-> 1]}

HashModes == {[ver |-> 0, care |-> FALSE, time |-> 0], [ver |-> 1, care |-> TRUE, time |-> -1]}

Letters3 == <<"x", "y", "z">>
SomePushes == {<<"x">>, <<"x", "y">>}
SomeCounts == {-1, 0, 1, 2}
SomeScores == {0, 1}

CONSTANT word   \* a string that is no number

\* Key calls on two keys with evictions, strings, and each kind of collection
\* by itself.
MCLoads ==
  {[keys |-> TwoKeys, groups |-> {"key", "area"}, modes |-> FewModes, tight |-> TRUE,
    strings |-> {word}, elements |-> {"x"}, increments |-> {1}, until |-> 2],
   [keys |-> OneKey, groups |-> {"string", "area"}, modes |-> AllModes, tight |-> TRUE,
    strings |-> {word, Long}, elements |-> {"x"}, increments |-> {1, -2}, until |-> 3],
   [keys |-> OneKey, groups |-> {"list", "area"}, modes |-> FewModes, tight |-> FALSE,
    strings |-> {1}, elements |-> {"x", "y"}, increments |-> {1}, until |-> 2],
   [keys |-> OneKey, groups |-> {"hash", "filter", "area"}, modes |-> HashModes, tight |-> FALSE,
    strings |-> {1}, elements |-> {"x", "y"}, increments |-> {1}, until |-> 1],
   [keys |-> OneKey, groups |-> {"set", "area", "key"}, modes |-> AllModes, tight |-> FALSE,
    strings |-> {1}, elements |-> {"x", "y", "z"}, increments |-> {1}, until |-> 3],
   [keys |-> OneKey, groups |-> {"zset", "area"}, modes |-> FewModes, tight |-> FALSE,
    strings |-> {1}, elements |-> {"x", "y", "z"}, increments |-> {1}, until |-> 2]}

\* The last call is no part of a state's identity.
Database == <<db, load>>

=============================================================================
