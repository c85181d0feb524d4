-------------------------- MODULE MCResourceReads --------------------------
(* An instance of ResourceReads for TLC: two objects whose names overlap,  *)
(* and queries by every field.                                             *)
EXTENDS ResourceReads, TLC

CONSTANTS a, b, l, g

AllResources == DOMAIN ResourceActions

MCHome == a :> "here" @@ b :> "there"
MCNameOf == a :> "web" @@ b :> "web-1"
MCSubstrings == a :> {"web"} @@ b :> {"web", "web-1"}
MCExtra == a :> {"owned"} @@ b :> {}

Everything == [uid |-> Blank, namespace |-> Blank, name |-> Blank, extra |-> Blank]

MCQueries ==
    {Everything, [Everything EXCEPT !.uid = a], [Everything EXCEPT !.namespace = "here"],
     [Everything EXCEPT !.name = "web-1"], [Everything EXCEPT !.extra = "owned"],
     [Everything EXCEPT !.extra = Invalid]}
=============================================================================
