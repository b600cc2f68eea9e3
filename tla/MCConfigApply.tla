--------------------------- MODULE MCConfigApply ---------------------------
EXTENDS ConfigApply

\* base and a are healthy, x is not and cannot be reached from a's bindings; toBase
\* and again bring back the content that toA and toX were planned for, the second
\* of them when it is already there.
MCContents  == {"base", "a", "x"}
MCCommands  == {"toA", "toX", "toBase", "again", "bad"}
MCCandidate == [c \in MCCommands |->
    CASE c \in {"toA", "bad"} -> "a" [] c = "toX" -> "x" [] c \in {"toBase", "again"} -> "base"]
MCRevision  == [c \in MCCommands |->
    CASE c = "toA" -> 1 [] c = "toX" -> 2 [] c = "toBase" -> 3 [] c = "again" -> 4
      [] c = "bad" -> 5]
MCBinding   == [x \in MCContents |-> IF x = "a" THEN "other" ELSE "same"]
=============================================================================
