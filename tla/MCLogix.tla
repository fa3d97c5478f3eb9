------------------------------- MODULE MCLogix -------------------------------
(* A controller with a scalar, a structure and a program with two tags, one  *)
(* of the system; and calls of each method.                                  *)
EXTENDS LogixTags

MCIds == (<<>> :> {1, 2, 4}) @@ (<<4>> :> {3, 5})
MCTypeOf ==
  (<<>> :> (1 :> "atomic" @@ 2 :> "outer" @@ 4 :> "program"))
    @@ (<<4>> :> (3 :> "atomic" @@ 5 :> "inner"))
MCMembers == [t \in {"outer", "inner"} |-> IF t = "outer" THEN <<"inner", "atomic">> ELSE <<"atomic">>]
MCBytes == [t \in {"outer", "inner"} |-> IF t = "outer" THEN 3 ELSE 2]

MCOperations ==
  {Read(<<1>>, FALSE, "given"), Read(<<1>>, FALSE, "invalid"), Read(<<2, 1, 1>>, FALSE, "none"),
   Read(<<4>>, FALSE, "none"), Read(<<4, 5>>, FALSE, "none"), Read(<<4>>, TRUE, "none"),
   Write(<<1>>, FALSE), Write(<<2>>, TRUE), Attributes(<<4>>, <<3>>, FALSE), List(<<>>),
   Template("outer"), Single("modify"), Single("controller"), Single("class")}
=============================================================================
