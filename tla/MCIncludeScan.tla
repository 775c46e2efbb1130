--------------------------- MODULE MCIncludeScan ---------------------------
(* Small projects for IncludeScan.                                         *)
EXTENDS IncludeScan, TLC

CONSTANTS s1, s2, b1, b2, b3, b4, g1, g2

Found(f) == [to |-> f, exact |-> FALSE]
Named(f) == [to |-> f, exact |-> TRUE]

(* Two outputs of two generators that read nothing and include nothing.    *)
Blank ==
  [incs   |-> [f \in File |-> <<>>],
   gen    |-> (b1 :> g1) @@ (b2 :> g2),
   ins    |-> [g \in Gen |-> <<>>],
   adds   |-> [g \in Gen |-> <<>>],
   plain  |-> {},
   modes  |-> [f \in Source |-> {FALSE}],
   main   |-> [b \in Build |-> b],
   opaque |-> {},
   text   |-> [b \in Build |-> {}],
   from   |-> [b \in Build |-> {}]]

(* Two sources and two outputs that include each other.                    *)
Cycles ==
  {[Blank EXCEPT !.incs[s1] = x, !.incs[s2] = y, !.incs[b1] = zw[1], !.incs[b2] = zw[2],
                 !.from[b1] = {s1}] :
    x \in {<<Found(b1)>>, <<Found(s2), Found(b1)>>},
    y \in {<<Found(s1)>>, <<Found(b2)>>},
    zw \in ({<<Named(b2)>>, <<Found(b2)>>} \X {<<>>, <<Named(b1)>>}) \cup {<< <<Named(s2)>>, <<>> >>}}

(* g1 reads ia[1] and passes ia[2] on; the last two depend on themselves.  *)
Generators ==
  {[Blank EXCEPT !.incs[s1] = <<Found(b1), Found(s2)>>, !.incs[s2] = y,
                 !.ins[g1] = ia[1], !.adds[g1] = ia[2], !.plain = p] :
    y \in {<<>>, <<Found(b2)>>},
    ia \in {<< <<s2>>, <<Named(s2)>> >>, << <<s2>>, <<Found(b2)>> >>, << <<b2>>, <<Found(b2)>> >>},
    p \in {{}, {g1}}}
  \cup
  {[Blank EXCEPT !.incs[s1] = <<Found(b1), Found(s2)>>, !.incs[s2] = <<Found(b2)>>,
                 !.incs[b2] = <<Named(b1)>>, !.ins[g1] = <<i>>, !.adds[g1] = <<Found(b2)>>] :
    i \in {s2, b2}}

(* An output that brings another one, or a template, along.  Nobody        *)
(* includes what is brought along: a file that a closure already has       *)
(* without the file's own closure would hide the latter from Splice.       *)
Singles ==
  {[Blank EXCEPT !.incs[s1] = <<Found(b1)>>, !.incs[s2] = <<Found(s1)>>,
                 !.main[b1] = b2, !.opaque = o, !.text[b1] = t, !.gen[b2] = g] :
    o \in {{}, {b1}}, t \in {{}, {s2}}, g \in {g1, g2}}

(* r and x include each other; a, which r includes, does not lead back.    *)
Diamond ==
  {[Blank EXCEPT !.gen = [b \in Build |-> g1], !.incs[b1] = <<Named(b2), Named(b3), Named(b4)>>,
       !.incs[b2] = <<Named(b1)>>, !.incs[b3] = <<Named(s1)>>, !.incs[b4] = d]
     : d \in {<<Named(b3)>>, <<Named(b3), Found(s2)>>}}

(* A generator of a module that does not resolve reads an output of a      *)
(* cycle, and runs late.                                                   *)
PlainReader ==
  {[Blank EXCEPT !.gen = (b1 :> g1) @@ (b2 :> g1) @@ (b3 :> g2), !.plain = {g2}, !.ins[g2] = <<b1>>,
       !.incs[s1] = <<Found(b3)>>, !.incs[s2] = y, !.incs[b1] = <<Found(b2)>>, !.incs[b2] = <<Named(b1)>>]
     : y \in {<<>>, <<Found(b1)>>}}

(* s1 is compiled by a module that resolves includes and by one that does  *)
(* not.                                                                    *)
Mixed ==
  {[p EXCEPT !.modes[s1] = BOOLEAN] :
     p \in {q \in Cycles : q.incs[s1] # <<Found(b1)>> /\ q.incs[b1] \in {<<Found(b2)>>, <<Named(s2)>>}}}

TestProjects == Cycles \cup Generators \cup Singles \cup Diamond \cup PlainReader \cup Mixed
=============================================================================
