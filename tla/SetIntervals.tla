---------------------------- MODULE SetIntervals -----------------------------
(***************************************************************************)
(* The elements of named sets (nft/set.go).  A set with the interval flag  *)
(* keeps a range as two elements: its first key, and a close marker at the *)
(* key after its last.  Keys are numbers of a fixed width, so the key      *)
(* after the last one is 0.  Here are the ways from what the user typed to *)
(* elements and from elements to rows, and the kernel they go through.     *)
(***************************************************************************)
EXTENDS Integers, Sublists, FiniteSetsExt

CONSTANT
    KeySpace            \* how many keys there are: 2^w for a key of w bits

Key    == 0 .. KeySpace - 1
NoEnd  == -1            \* a nil KeyEnd
Element == [key : Key, end : BOOLEAN]
Range_  == [key : Key, keyEnd : Key \cup {NoEnd}]

(* What a set is: with the interval flag, a map, both or none of them. *)
Kinds       == [interval : BOOLEAN, map : BOOLEAN]

incrementBytes(k) == (k + 1) % KeySpace
decrementBytes(k) == (k + KeySpace - 1) % KeySpace

Start(k)  == [key |-> k, end |-> FALSE]
Marker(k) == [key |-> k, end |-> TRUE]

----------------------------------------------------------------------------
(* From what was typed to elements, and back to rows. *)

(* A range or CIDR needs an interval set; a range may be upside down. *)
ParseSetElementKey(kind, typed) == typed.keyEnd # NoEnd => kind.interval

(* Mutant: the marker is put on the last key. *)
buildSetElements_Inclusive(kind, typed) ==
    IF typed.keyEnd # NoEnd THEN {Start(typed.key), Marker(typed.keyEnd)}
    ELSE IF kind.interval
    THEN {Start(typed.key), Marker(incrementBytes(typed.key))}
    ELSE {Start(typed.key)}

(* The elements of AddSetElement.  Those of a range carry no value. *)
buildSetElements(kind, typed) ==
    IF typed.keyEnd # NoEnd
    THEN {Start(typed.key), Marker(incrementBytes(typed.keyEnd))}
    ELSE IF kind.interval
    THEN {Start(typed.key), Marker(incrementBytes(typed.key))}
    ELSE {Start(typed.key)}

(* Mutant: the marker stays, as it did in an earlier version. *)
deleteSetElements_StartOnly(kind, row) == {Start(row.key)}

(* The elements of DeleteSetElement. *)
deleteSetElements(kind, row) ==
    {Start(row.key)} \cup
    (IF ~kind.interval THEN {}
     ELSE IF row.keyEnd = NoEnd THEN {Marker(incrementBytes(row.key))}
     ELSE {Marker(incrementBytes(row.keyEnd))})

(* A marker closes the row before it if that row is open, and is dropped   *)
(* if not.                                                                 *)
FoldMarker(out, el) ==
    IF ~el.end THEN Append(out, [key |-> el.key, keyEnd |-> NoEnd])
    ELSE IF out # << >> /\ Last(out).keyEnd = NoEnd
    THEN [out EXCEPT ![Len(out)].keyEnd = decrementBytes(el.key)]
    ELSE out

pairIntervalElements(els) == FoldLeft(FoldMarker, << >>, els)

(* The list is sorted by key alone: of a start and a marker at one key     *)
(* either may come first (startFirst).  It is what is there of the list of *)
(* all elements.                                                           *)
InOrder(startFirst) ==
    [p \in 1 .. 2 * KeySpace |->
       [key |-> (p - 1) \div 2, end |-> (p % 2 = 0) = startFirst]]
Sorted(elements, startFirst) ==
    Kept(InOrder(startFirst),
         {p \in 1 .. 2 * KeySpace : InOrder(startFirst)[p] \in elements})

decodeSetElements(kind, elements, startFirst) ==
    IF kind.interval THEN pairIntervalElements(Sorted(elements, startFirst))
    ELSE [i \in DOMAIN Sorted(elements, TRUE) |->
            [key |-> Sorted(elements, TRUE)[i].key, keyEnd |-> NoEnd]]

----------------------------------------------------------------------------
(* The kernel's set.  A start opens a range that the next element ends; a  *)
(* start with nothing after it is open to the last key.                    *)
LastKey(elements, k) ==
    LET after == {e.key : e \in {x \in elements : x.key > k}}
    IN  IF after = {} THEN KeySpace - 1 ELSE Min(after) - 1

(* The ranges of a set, and the keys in them. *)
Ranges(kind, elements) ==
    {[key |-> e.key, keyEnd |-> IF kind.interval THEN LastKey(elements, e.key)
                                ELSE e.key] :
       e \in {x \in elements : ~x.end}}
Covered(kind, elements) ==
    UNION {r.key .. r.keyEnd : r \in Ranges(kind, elements)}

(* An addition is refused whole if it overlaps a range that is not the     *)
(* same, or if it lacks the value a map needs.  What becomes of a range    *)
(* that is upside down is not known here: it may be refused.               *)
LastTyped(typed) == IF typed.keyEnd = NoEnd THEN typed.key ELSE typed.keyEnd
UpsideDown(typed) == LastTyped(typed) < typed.key
TakesAdd(kind, elements, typed) ==
    LET new == buildSetElements(kind, typed)
    IN  /\ ~(kind.map /\ kind.interval)
        /\ \/ new \subseteq elements
           \/ typed.key .. LastTyped(typed) \cap Covered(kind, elements) = {}
        /\ UpsideDown(typed) => typed.key \notin Covered(kind, elements)

(* A deletion is refused whole if one of its elements is not there. *)
TakesDelete(elements, gone) == gone \subseteq elements

(* Something begins or ends inside a range: its two ends may be there, but *)
(* they are the ends of several ranges.                                    *)
Splits(elements, r) ==
    \E x \in elements : r.key < x.key /\ x.key <= LastTyped(r)
=============================================================================
