----------------------------- MODULE DeviceTree -----------------------------
(***************************************************************************)
(* The flattened device tree of device_tree.rs, a sequence of 32-bit words *)
(* written by the firmware, and the iterators that read it.  A pointer to  *)
(* a word is its index.  What a word holds is its tag, or the name or the  *)
(* value that begins there; how many words names and values take, and the  *)
(* steps over them, are as in the code.  The strings block is left out:    *)
(* the header of a property holds its name.                                *)
(*                                                                         *)
(* An Option is a sequence of at most one element.                         *)
(***************************************************************************)
EXTENDS Integers, Sequences

None == <<>>
Some(x) == <<x>>

\* A value is a string (with its null byte) or a sequence of cells.
Str(s) == [str |-> s, cells |-> <<>>]
Cells(c) == [str |-> "", cells |-> c]
Bytes(v) == IF v.str # "" THEN Len(v.str) + 1 ELSE 4 * Len(v.cells)

-----------------------------------------------------------------------------
(* What the firmware writes, from a tree of names, properties and children *)

Word(tag, name, value) == [tag |-> tag, name |-> name, value |-> value]
Tag(tag) == Word(tag, "", Str(""))

\* The words that n bytes take, the first of them w.
Padded(w, n) == [i \in 1 .. (n + 3) \div 4 |-> IF i = 1 THEN w ELSE Tag("data")]

EncodeProp(p) ==
    <<Tag("prop"), Word("header", p.name, p.value), Tag("header")>>
        \o Padded(Tag("data"), Bytes(p.value))

RECURSIVE Concat(_)
Concat(ss) == IF ss = <<>> THEN <<>> ELSE Head(ss) \o Concat(Tail(ss))

RECURSIVE Encode(_)
Encode(n) ==
    <<Tag("nop"), Tag("begin")>> \o Padded(Word("name", n.name, Str("")), Len(n.name) + 1)
        \o Concat([i \in 1 .. Len(n.props) |-> EncodeProp(n.props[i])])
        \o Concat([i \in 1 .. Len(n.kids) |-> Encode(n.kids[i])])
        \o <<Tag("end")>>

Blob(tree) == Encode(tree) \o <<Tag("stop")>>

-----------------------------------------------------------------------------
(* The iterators.  They panic at a word that is no tag: CASE has no arm    *)
(* for it, so that TLC would stop there.                                   *)

\* (ptr + 4 - 1) & !3, as a word
align(byte) == (byte + 3) \div 4

AfterName(dt, p) == align(4 * p + Len(dt[p].name) + 1)
AfterProp(dt, p) == align(4 * p + 8 + Bytes(dt[p].value))

\* Mutant: the end of a node does not lead back to its parent.
node_end_lost(depth) == depth

\* search_depth after the end of a node
node_end(depth) == depth - 1

\* NodeIterator::next from word p on: the node, and where the iterator is then
RECURSIVE node_next(_, _, _)
node_next(dt, p, depth) ==
    LET tag == dt[p].tag IN
    CASE tag = "stop" -> None
      [] tag = "begin" ->
            LET base == AfterName(dt, p + 1) IN
            IF depth = 0 THEN Some([base |-> base, name |-> dt[p + 1].name])
            ELSE node_next(dt, base, depth + 1)
      [] tag = "end" -> IF depth = 0 THEN None ELSE node_next(dt, p + 1, node_end(depth))
      [] tag = "prop" -> node_next(dt, AfterProp(dt, p + 1), depth)
      [] tag = "nop" -> node_next(dt, p + 1, depth)

\* DeviceTree::root
root(dt) == node_next(dt, 1, 0)

\* Node::children: after a child the iterator is inside it, one level down.
RECURSIVE nodes(_, _, _)
nodes(dt, p, depth) ==
    LET n == node_next(dt, p, depth) IN
    IF n = None THEN <<>> ELSE n \o nodes(dt, n[1].base, 1)
children(dt, node) == nodes(dt, node.base, 0)

\* PropIterator::next until the name is found, as prop_by_name calls it
RECURSIVE prop_from(_, _, _)
prop_from(dt, p, name) ==
    LET tag == dt[p].tag IN
    CASE tag = "nop" -> prop_from(dt, p + 1, name)
      [] tag \in {"begin", "end", "stop"} -> None
      [] tag = "prop" -> IF dt[p + 1].name = name THEN Some(dt[p + 1].value)
                         ELSE prop_from(dt, AfterProp(dt, p + 1), name)
prop_by_name(dt, node, name) == prop_from(dt, node.base, name)

\* Where the value matched is a string
children_by_prop(dt, node, name, str) ==
    SelectSeq(children(dt, node),
        LAMBDA c : LET v == prop_by_name(dt, c, name) IN v # None /\ v[1].str = str)

Find(ns, name) ==
    LET hit == SelectSeq(ns, LAMBDA n : n.name = name)
    IN  IF hit = <<>> THEN None ELSE Some(hit[1])
child_by_name(dt, node, name) == Find(children(dt, node), name)

\* child_by_path, of the components of the path: a component that is not found
\* ends the search at the node it was not found in.
RECURSIVE child_by_path(_, _, _)
child_by_path(dt, node, path) ==
    IF path = <<>> THEN node
    ELSE LET next == child_by_name(dt, node, Head(path))
         IN  IF next = None THEN node ELSE child_by_path(dt, next[1], Tail(path))
=============================================================================
