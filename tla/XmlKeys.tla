------------------------------ MODULE XmlKeys ------------------------------
(***************************************************************************)
(* The keys of the XML library (mxml).  A path is the sequence of tags     *)
(* from the root down.  A key is a path, or names elements of a list: with *)
(* the elements tags.tag1, tags.tag2 ... and tags.total, tag[#] is the     *)
(* total, tag[$] the last element, tag[+] a new one.                       *)
(***************************************************************************)
EXTENDS Integers, Sequences, SequencesExt

CONSTANTS
    List,           \* the path of tags, which holds the list
    ItemTag(_),     \* tag<n>
    TotalTag,       \* total
    Values,         \* texts of elements, numbers among them
    Empty,          \* the text of an element without text but white space
    Paths,          \* paths used as keys
    Subs            \* paths used below tag[$] and tag[+]

Path == Seq(STRING) \ {<<>>}

ASSUME PathAssumption ==
    /\ List \in Path /\ TotalTag \in STRING
    /\ Paths \subseteq Path /\ Subs \subseteq Seq(STRING)
ASSUME ValueAssumption == Empty \notin Nat /\ Values \subseteq Nat \cup {Empty}

\* The names of elements are tags, none of them that of the total.
TagsApart == \A n \in Nat : ItemTag(n) \in STRING \ {TotalTag}

TotalKey == Append(List, TotalTag)
ItemKey(n) == Append(List, ItemTag(n))

Keys == [kind : {"path"}, path : Paths] \cup [kind : {"+", "$"}, path : Subs]
            \cup [kind : {"#"}, path : {<<>>}]

\* The path that a key stands for while the total is n.
Expanded(key, n) ==
    CASE key.kind = "path" -> key.path
      [] key.kind = "+"    -> ItemKey(n + 1) \o key.path
      [] key.kind = "$"    -> ItemKey(n) \o key.path
      [] key.kind = "#"    -> TotalKey

\* A total that is no number counts as none.
Number(v) == IF v \in Nat THEN v ELSE 0

\* Is path k the path p or below it?
SelfOrChild(k, p) == IsPrefix(p, k)

\* The paths above k, from the root down.
Above(k) == [i \in 1 .. Len(k) - 1 |-> SubSeq(k, 1, i)]

\* tag[$] as a whole: its deletion changes the total.
IsLastItem(key) == key.kind = "$" /\ key.path = <<>>
=============================================================================
