------------------------- MODULE RuleEditor_proofs --------------------------
(***************************************************************************)
(* Proofs about the saves of the rule editor, for any scenes, and so for   *)
(* any rules it can be opened on and any editors that are shown.           *)
(***************************************************************************)
EXTENDS RuleEditor, TLAPS

(* As long as no save overlapped another there is one command at most, and *)
(* what it has read is the rule of the list.                               *)
CalmInv ==
  ~overlap =>
    /\ {kernel, rule} \subseteq left
    /\ \/ jobs = {} /\ (refused \/ Panicked \/ kernel = rule)
       \/ jobs = {Job(saves, <<>>)}
       \/ jobs = {Job(saves, <<rule>>)}

(* The editor opens on a rule that the kernel has.                         *)
LEMMA CalmInit == Init => CalmInv
BY DEF Init, CalmInv

(* A save that overlaps no other sends the only command there is.          *)
LEMMA CalmSave == ASSUME CalmInv, Save PROVE CalmInv'
<1> SUFFICES ASSUME ~overlap' PROVE CalmInv'
  BY DEF CalmInv
<1>1. overlap' = (overlap \/ jobs # {})
  BY DEF Save
<1>2. ~overlap /\ jobs = {} /\ Unread = {}
  BY <1>1 DEF Unread
<1>3. {kernel', rule'} \subseteq left'
  BY <1>2 DEF Save, CalmInv
<1>4. jobs' = IF rule'.xs = Panic THEN {} ELSE {Job(saves', <<>>)}
  <2> DEFINE Jobs(torn, read, r) ==
               (jobs \ torn) \cup {Job(j.n, <<read[j]>>) : j \in torn}
               \cup IF r.xs = Panic THEN {} ELSE {Job(saves + 1, <<>>)}
  <2>1. PICK done \in {SaveAll} :
          /\ rule' = Last(done.rules)
          /\ \E torn \in SUBSET Unread :
               \E read \in [torn -> ToSet(done.rules)] :
                 jobs' = Jobs(torn, read, Last(done.rules))
    BY Zenon DEF Save
  <2> HIDE DEF Jobs
  <2>2. PICK torn \in SUBSET Unread : \E read : jobs' = Jobs(torn, read, rule')
    BY <2>1
  <2>3. torn = {} /\ saves' = saves + 1
    BY <1>2 DEF Save
  <2> QED
    BY <1>2, <2>2, <2>3 DEF Jobs
<1> QED
  BY <1>3, <1>4 DEF CalmInv, Panicked

(* Its command reads the rule of the list and then replaces that of the    *)
(* kernel.                                                                 *)
LEMMA CalmJobs ==
  ASSUME CalmInv, NEW j \in jobs, AddRule(j) \/ Flush(j) PROVE CalmInv'
<1> SUFFICES ASSUME ~overlap' PROVE CalmInv'
  BY DEF CalmInv
<1>1. ~overlap /\ UNCHANGED <<rule, left, saves>> /\ jobs = {j}
  BY DEF AddRule, Flush, CalmInv
<1>2. j = Job(saves, <<>>) \/ j = Job(saves, <<rule>>)
  BY <1>1 DEF CalmInv
<1>3. CASE AddRule(j)
  BY <1>1, <1>2, <1>3 DEF AddRule, Job, CalmInv
<1>4. CASE Flush(j)
  BY <1>1, <1>2, <1>4 DEF Flush, Job, CalmInv
<1> QED
  BY <1>3, <1>4

(* Edits and refused saves leave both alone.                               *)
LEMMA CalmStep == CalmInv /\ [Next]_vars => CalmInv'
<1> SUFFICES ASSUME CalmInv, [Next]_vars PROVE CalmInv'
  OBVIOUS
<1>1. ASSUME NEW i, Touch(i) PROVE CalmInv'
  BY <1>1 DEF Touch, CalmInv, Panicked
<1>2. CASE SaveRefused
  BY <1>2 DEF SaveRefused, CalmInv, Panicked
<1>3. CASE UNCHANGED vars
  BY <1>3 DEF vars, CalmInv, Panicked
<1> QED
  BY <1>1, <1>2, <1>3, CalmSave, CalmJobs DEF Next

(* As long as no save was started while the command of an earlier one was  *)
(* in flight, the kernel has the rule the list shows whenever nothing is   *)
(* in flight and no error was reported: the commands of later saves lose   *)
(* nothing of the earlier ones.                                            *)
THEOREM CalmHolds == Spec => []CalmAgrees
<1>1. CalmInv => CalmAgrees
  BY DEF CalmInv, CalmAgrees, Job
<1> QED
  BY <1>1, CalmInit, CalmStep, PTL DEF Spec
=============================================================================
