------------------------- MODULE ParticipationProofs -------------------------
(***************************************************************************)
(* Theorems about Participation for every set of sessions, prefixes,       *)
(* sections, limits and prerequisites.                                     *)
(***************************************************************************)
EXTENDS Participation, PersonTablesProofs

\* A session that is adding a participant is in no procedure.
EnrolReady ==
    \A s \in Sessions: enrolling[s] # Idle => Ready(s) /\ "enrol" \in Ops

\* A statement of one session touches no other session's call and no participant.
LEMMA PersonStepFrame ==
    ASSUME TypeOK, NEW s \in Sessions, PersonStep(s)
    PROVE  /\ \A t \in Sessions \ {s}: call'[t] = call[t]
           /\ UNCHANGED course_participant
<1> USE DEF TypeOK
<1>1. ASSUME NEW label, NEW type, NEW u, NEW attr, Begin(s, label, type, u, attr)
      PROVE  /\ \A t \in Sessions \ {s}: call'[t] = call[t]
             /\ UNCHANGED course_participant
  BY <1>1 DEF Begin, tables
<1>2. CASE trigger_insert_person(s)
  BY <1>2 DEF trigger_insert_person, tables
<1>3. CASE InsertPerson(s)
  BY <1>3 DEF InsertPerson, Return, Goto
<1>4. CASE InsertDerived(s) \/ UpdateDerived(s) \/ DeletePerson(s)
  BY <1>4 DEF InsertDerived, UpdateDerived, DeletePerson, Return
<1>5. CASE UpdatePerson(s) \/ DeleteDerived(s)
  BY <1>5 DEF UpdatePerson, DeleteDerived, Goto
<1>6. CASE \E kind \in Kinds, u \in DOMAIN person, a \in Attrs: DirectDerived(s, kind, u, a)
  BY <1>6 DEF DirectDerived
<1> QED
  BY <1>1, <1>2, <1>3, <1>4, <1>5, <1>6
  DEF PersonStep, insert_student, insert_faculty, StartInsert, DirectPerson, update_student,
      update_faculty, StartUpdate, delete_student, delete_faculty, StartDelete

\* The inductive invariant behind the types and the refinement.
EnrolInv ==
    /\ FiniteTypeOK
    /\ enrolling \in [Sessions -> (Uni \X Sections) \union {Idle}]
    /\ now \in Dates
    /\ EnrolReady

\* Every step of Participation is one of PersonTables or leaves its tables alone.
LEMMA EnrolStep ==
    ASSUME EnrolInv, [EnrolNext]_allvars
    PROVE  [Next]_vars
<1>1. ASSUME NEW s \in Sessions, PersonStep(s)
      PROVE  Next
  BY <1>1 DEF Next
<1>2. ASSUME NEW s \in Sessions, NEW u, NEW sec, trigger_insert_participant(s, u, sec)
      PROVE  UNCHANGED vars
  BY <1>2 DEF trigger_insert_participant
<1>3. ASSUME NEW s \in Sessions, InsertParticipant(s)
      PROVE  [Next]_vars
  <2> DEFINE u == enrolling[s][1]
             sec == enrolling[s][2]
  <2>1. enrolling[s] # Idle /\ enrolling[s] = <<u, sec>> /\ sec \in Sections
    BY <1>3 DEF EnrolInv, InsertParticipant
  <2>2. Ready(s) /\ "enrol" \in Ops
    BY <2>1 DEF EnrolInv, EnrolReady
  <2>3. CASE u \in DOMAIN person /\ <<u, sec>> \notin course_participant
    <3>1. Enrol(s, u, sec)
      BY <1>3, <2>1, <2>2, <2>3 DEF Enrol, InsertParticipant
    <3> QED
      BY <2>1, <2>3, <3>1 DEF Next
  <2>4. CASE ~(u \in DOMAIN person /\ <<u, sec>> \notin course_participant)
    BY <1>3, <2>1, <2>4 DEF InsertParticipant, vars
  <2> QED
    BY <2>3, <2>4
<1>4. ASSUME Tick
      PROVE  UNCHANGED vars
  BY <1>4 DEF Tick
<1>5. ASSUME UNCHANGED allvars
      PROVE  UNCHANGED vars
  BY <1>5 DEF allvars
<1> QED
  BY <1>1, <1>2, <1>3, <1>4, <1>5 DEF EnrolNext, allvars

LEMMA EnrolInvStep ==
    ASSUME EnrolInv, [EnrolNext]_allvars
    PROVE  EnrolInv'
<1> USE ParticipationAssumption
<1>0. TypeOK
  BY DEF EnrolInv, FiniteTypeOK
<1>1. FiniteTypeOK'
  BY EnrolStep, FiniteTypeStep DEF EnrolInv
<1>2. ASSUME NEW s \in Sessions, Free(s), PersonStep(s), UNCHANGED <<enrolling, now>>
      PROVE  EnrolInv'
  <2>1. \A t \in Sessions \ {s}: call'[t] = call[t]
    BY <1>0, <1>2, PersonStepFrame
  <2>2. EnrolReady'
    BY <1>2, <2>1 DEF EnrolInv, EnrolReady, Ready, Free
  <2> QED
    BY <1>1, <1>2, <2>2 DEF EnrolInv
<1>3. ASSUME NEW s \in Sessions, NEW u \in DOMAIN person, NEW sec \in Sections,
             trigger_insert_participant(s, u, sec)
      PROVE  EnrolInv'
  <2>1. <<u, sec>> \in Uni \X Sections
    BY <1>0 DEF TypeOK
  <2>2. enrolling' \in [Sessions -> (Uni \X Sections) \union {Idle}]
    BY <1>3, <2>1 DEF EnrolInv, trigger_insert_participant
  <2>3. call' = call
    BY <1>3 DEF trigger_insert_participant, vars
  <2>4. EnrolReady'
    BY <1>3, <2>3 DEF EnrolInv, EnrolReady, Ready, trigger_insert_participant
  <2> QED
    BY <1>1, <1>3, <2>2, <2>4 DEF EnrolInv, trigger_insert_participant
<1>4. ASSUME NEW s \in Sessions, InsertParticipant(s)
      PROVE  EnrolInv'
  BY <1>1, <1>4 DEF EnrolInv, EnrolReady, Ready, InsertParticipant
<1>5. ASSUME Tick
      PROVE  EnrolInv'
  BY <1>1, <1>5 DEF EnrolInv, EnrolReady, Ready, Tick, vars
<1>6. ASSUME UNCHANGED allvars
      PROVE  EnrolInv'
  BY <1>1, <1>6 DEF EnrolInv, EnrolReady, Ready, allvars, vars
<1> QED
  BY <1>2, <1>3, <1>4, <1>5, <1>6 DEF EnrolNext

LEMMA EnrolInvariant == EnrolSpec => []EnrolInv
<1>1. EnrolInit => EnrolInv
  BY FiniteTypeInit DEF EnrolInit, EnrolInv, EnrolReady
<1>2. EnrolInv /\ [EnrolNext]_allvars => EnrolInv'
  BY EnrolInvStep
<1> QED
  BY <1>1, <1>2, PTL DEF EnrolSpec

\* The types of the tables, the statements under way and the clock.
THEOREM EnrolTypeCorrect == EnrolSpec => []EnrolTypeOK
<1>1. EnrolInv => EnrolTypeOK
  BY DEF EnrolInv, FiniteTypeOK, EnrolTypeOK
<1> QED
  BY <1>1, EnrolInvariant, PTL

\* The trigger on course_participant only withholds inserts: with it the system
\* still behaves as the tables and procedures of PersonTables allow, so every
\* theorem about those carries over.
THEOREM Refinement == EnrolSpec => RefinesPersonTables
<1>1. EnrolInit => Init
  BY DEF EnrolInit
<1>2. EnrolInv /\ [EnrolNext]_allvars => [Next]_vars
  BY SMTT(60), EnrolStep
<1> QED
  BY <1>1, <1>2, EnrolInvariant, PTL DEF EnrolSpec, Spec, RefinesPersonTables

-----------------------------------------------------------------------------
(* The two limits, when statements do not overlap.                         *)

\* A statement on persons changes nobody's type and deletes no participant.
LEMMA PersonStepTypes ==
    ASSUME TypeOK, NEW s \in Sessions, PersonStep(s), NEW u \in DOMAIN person
    PROVE  /\ u \in DOMAIN person' => person'[u].type = person[u].type
           /\ (\E p \in course_participant: p[1] = u) => u \in DOMAIN person'
<1> USE DEF TypeOK
<1>1. CASE UNCHANGED person
  BY <1>1
<1>2. CASE InsertPerson(s)
  BY <1>2 DEF InsertPerson, Put
<1>3. CASE UpdatePerson(s)
  BY <1>3 DEF UpdatePerson
<1>4. CASE DeletePerson(s)
  BY <1>4 DEF DeletePerson, Referenced, Without
<1> QED
  BY <1>1, <1>2, <1>3, <1>4
  DEF PersonStep, insert_student, insert_faculty, StartInsert, DirectPerson, Begin, tables,
      trigger_insert_person, InsertDerived, DirectDerived, update_student, update_faculty,
      StartUpdate, UpdateDerived, delete_student, delete_faculty, StartDelete, DeleteDerived

LEMMA StudentsKept ==
    ASSUME TypeOK, ViewsComplete, NEW s \in Sessions, PersonStep(s), NEW sec \in Sections
    PROVE  Students(sec)' = Students(sec)
<1>1. UNCHANGED course_participant
  BY PersonStepFrame
<1>2. \A p \in course_participant: person'[p[1]].type = person[p[1]].type
  <2> TAKE p \in course_participant
  <2>1. p[1] \in DOMAIN person
    BY DEF ViewsComplete
  <2> QED
    BY <2>1, PersonStepTypes
<1> QED
  BY <1>1, <1>2 DEF Students

\* Adding one element to a finite set that is below a bound.
LEMMA AddBelow ==
    ASSUME NEW S, IsFiniteSet(S), NEW x, NEW n \in Nat, Cardinality(S) < n
    PROVE  IsFiniteSet(S \union {x}) /\ Cardinality(S \union {x}) <= n
<1>1. Cardinality(S) \in Nat
  BY FS_CardinalityType
<1>2. /\ IsFiniteSet(S \union {x})
      /\ Cardinality(S \union {x}) = Cardinality(S) \/ Cardinality(S \union {x}) = Cardinality(S) + 1
  BY FS_AddElement
<1> QED
  BY <1>1, <1>2

\* One statement adds participants at a time.
OneEnrolling ==
    /\ IsFiniteSet(course_participant)
    /\ \A s, t \in Sessions: enrolling[s] # Idle /\ enrolling[t] # Idle => s = t

LEMMA OneEnrollingStep ==
    ASSUME ~Overlap, EnrolInv, OneEnrolling, [EnrolNext]_allvars
    PROVE  OneEnrolling'
<1> USE DEF OneEnrolling
<1>0. TypeOK
  BY DEF EnrolInv, FiniteTypeOK
<1>1. ASSUME NEW s \in Sessions, PersonStep(s), UNCHANGED <<enrolling, now>>
      PROVE  OneEnrolling'
  BY <1>0, <1>1, PersonStepFrame
<1>2. ASSUME NEW s \in Sessions, NEW u, NEW sec, trigger_insert_participant(s, u, sec)
      PROVE  OneEnrolling'
  <2>1. \A t \in Sessions: enrolling[t] = Idle
    BY <1>2 DEF trigger_insert_participant, Free
  <2>2. course_participant' = course_participant
    BY <1>2 DEF trigger_insert_participant, vars
  <2> QED
    BY <1>2, <2>1, <2>2 DEF trigger_insert_participant, EnrolInv
<1>3. ASSUME NEW s \in Sessions, InsertParticipant(s)
      PROVE  OneEnrolling'
  <2>1. IsFiniteSet(course_participant')
    BY <1>3, FS_AddElement DEF InsertParticipant
  <2> QED
    BY <1>3, <2>1 DEF InsertParticipant, EnrolInv
<1>4. CASE Tick \/ UNCHANGED allvars
  BY <1>4 DEF Tick, allvars, vars
<1> QED
  BY <1>1, <1>2, <1>3, <1>4 DEF EnrolNext

\* A student who has passed student_limit still finds a seat.
SeatInv ==
    /\ SeatLimit
    /\ \A s \in Sessions:
          enrolling[s] # Idle /\ person[enrolling[s][1]].type = "Student" =>
              Cardinality(Students(enrolling[s][2])) < Section[enrolling[s][2]].enrollment_limit

LEMMA SeatStep ==
    ASSUME ~Overlap, EnrolInv, OneEnrolling, ViewsComplete, WholePersons, SeatInv,
           [EnrolNext]_allvars
    PROVE  SeatInv'
<1> USE ParticipationAssumption
<1>0. TypeOK
  BY DEF EnrolInv, FiniteTypeOK
<1>1. ASSUME NEW s \in Sessions, Free(s), PersonStep(s), UNCHANGED <<enrolling, now>>
      PROVE  SeatInv'
  <2>1. \A sec \in Sections: Students(sec)' = Students(sec)
    BY <1>0, <1>1, StudentsKept
  <2>2. SeatLimit'
    BY <2>1 DEF SeatInv, SeatLimit
  <2>3. \A t \in Sessions: enrolling'[t] = Idle
    BY <1>1 DEF Free
  <2> QED
    BY <2>2, <2>3 DEF SeatInv
<1>2. ASSUME NEW s \in Sessions, NEW u \in DOMAIN person, NEW sec \in Sections,
             trigger_insert_participant(s, u, sec)
      PROVE  SeatInv'
  <2>1. UNCHANGED <<person, derived, course_participant>>
    BY <1>2 DEF trigger_insert_participant, vars
  <2>2. \A r \in Sections: Students(r)' = Students(r)
    BY <2>1 DEF Students
  <2>3. SeatLimit'
    BY <2>2 DEF SeatInv, SeatLimit
  <2>4. \A t \in Sessions \ {s}: enrolling'[t] = Idle
    BY <1>2 DEF trigger_insert_participant, Free, EnrolInv
  <2>5. enrolling'[s] = <<u, sec>>
    BY <1>2 DEF trigger_insert_participant, EnrolInv
  <2>6. ASSUME person[u].type = "Student"
        PROVE  Cardinality(Students(sec)) < Section[sec].enrollment_limit
    <3>1. Cardinality(Attending(sec)) < Section[sec].enrollment_limit
      BY <1>2, <2>6 DEF trigger_insert_participant, Admitted, student_limit
    <3>2. Quiet
      BY <1>2 DEF trigger_insert_participant, Ready, Quiet
    <3>3. Students(sec) \subseteq Attending(sec)
      BY <3>2 DEF Students, Attending, student_view, WholePersons, ViewsComplete
    <3>4. IsFiniteSet(Attending(sec))
      BY FS_Subset DEF Attending, OneEnrolling
    <3>5. /\ Cardinality(Students(sec)) \in Nat
          /\ Cardinality(Attending(sec)) \in Nat
          /\ Cardinality(Students(sec)) <= Cardinality(Attending(sec))
      BY <3>3, <3>4, FS_Subset, FS_CardinalityType
    <3> QED
      BY <3>1, <3>5
  <2> QED
    BY <2>1, <2>2, <2>3, <2>4, <2>5, <2>6 DEF SeatInv
<1>3. ASSUME NEW s \in Sessions, InsertParticipant(s)
      PROVE  SeatInv'
  <2> DEFINE e == enrolling[s]
  <2>1. e # Idle /\ e \in Uni \X Sections
    BY <1>3 DEF InsertParticipant, EnrolInv
  <2>2. \A t \in Sessions: enrolling'[t] = Idle
    BY <1>3, <2>1 DEF InsertParticipant, EnrolInv, OneEnrolling
  <2>3. ASSUME NEW sec \in Sections
        PROVE  Cardinality(Students(sec)') <= Section[sec].enrollment_limit
    <3>1. CASE Students(sec)' = Students(sec)
      BY <3>1 DEF SeatInv, SeatLimit
    <3>2. CASE Students(sec)' # Students(sec)
      <4>1. /\ sec = e[2]
            /\ person[e[1]].type = "Student"
            /\ Students(sec)' = Students(sec) \union {e}
        BY <1>3, <3>2 DEF InsertParticipant, Students
      <4>2. Cardinality(Students(sec)) < Section[sec].enrollment_limit
        BY <2>1, <4>1 DEF SeatInv
      <4>3. IsFiniteSet(Students(sec))
        BY FS_Subset DEF Students, OneEnrolling
      <4>4. Section[sec].enrollment_limit \in Nat
        OBVIOUS
      <4> HIDE DEF e
      <4>5. Cardinality(Students(sec) \union {e}) <= Section[sec].enrollment_limit
        BY ZenonT(60), <4>2, <4>3, <4>4, AddBelow
      <4> QED
        BY <4>1, <4>5
    <3> QED
      BY <3>1, <3>2
  <2> QED
    BY <2>2, <2>3 DEF SeatInv, SeatLimit
<1>4. CASE Tick \/ UNCHANGED allvars
  <2>1. UNCHANGED <<person, course_participant, enrolling>>
    BY <1>4 DEF Tick, allvars, vars
  <2>2. \A sec \in Sections: Students(sec)' = Students(sec)
    BY <2>1 DEF Students
  <2>3. SeatLimit'
    BY <2>2 DEF SeatInv, SeatLimit
  <2>4. \A s \in Sessions: enrolling[s] # Idle => enrolling[s][2] \in Sections
    BY DEF EnrolInv
  <2> QED
    BY <2>1, <2>2, <2>3, <2>4 DEF SeatInv
<1> QED
  BY <1>1, <1>2, <1>3, <1>4 DEF EnrolNext

\* When the statements of careful clients do not overlap, no section ever has
\* more students than its limit ("exceed section limit size").
THEOREM SeatsAreLimited ==
    ASSUME ~Overlap, Careful, "direct" \notin Ops
    PROVE  EnrolSpec => []SeatLimit
<1> USE ParticipationAssumption
<1>1. EnrolInit => OneEnrolling /\ SeatInv
  <2> SUFFICES ASSUME EnrolInit PROVE OneEnrolling /\ SeatInv
    OBVIOUS
  <2>1. course_participant = {} /\ \A s \in Sessions: enrolling[s] = Idle
    BY DEF EnrolInit, Init
  <2>2. OneEnrolling
    BY <2>1, FS_EmptySet DEF OneEnrolling
  <2>3. ASSUME NEW sec \in Sections
        PROVE  Cardinality(Students(sec)) = 0
    <3>1. Students(sec) = {}
      BY <2>1 DEF Students
    <3> QED
      BY <3>1, FS_EmptySet
  <2>4. \A sec \in Sections: Section[sec].enrollment_limit \in Nat
    OBVIOUS
  <2>5. SeatLimit
    BY <2>3, <2>4 DEF SeatLimit
  <2> QED
    BY <2>1, <2>2, <2>5 DEF SeatInv
<1>2. EnrolInv /\ OneEnrolling /\ [EnrolNext]_allvars => OneEnrolling'
  BY OneEnrollingStep
<1>3. /\ EnrolInv /\ OneEnrolling /\ ViewsComplete /\ WholePersons /\ SeatInv
      /\ [EnrolNext]_allvars
      => SeatInv'
  BY SeatStep
<1>4. EnrolSpec => []ViewsComplete /\ []WholePersons
  BY Refinement, ViewsAreComplete, PersonsAreWhole, PTL DEF RefinesPersonTables
<1>5. SeatInv => SeatLimit
  BY DEF SeatInv
<1> QED
  BY <1>1, <1>2, <1>3, <1>4, <1>5, EnrolInvariant, PTL DEF EnrolSpec

\* A faculty member who has passed faculty_limit is still below three sections.
TeachInv ==
    /\ TeachingLimit
    /\ \A s \in Sessions:
          enrolling[s] # Idle => /\ enrolling[s][1] \in DOMAIN person
                                 /\ person[enrolling[s][1]].type = "Faculty" =>
                                       Cardinality(Load(enrolling[s][1], enrolling[s][2])) < 3

\* A person who takes part in nothing has no load.
LEMMA NoLoad ==
    ASSUME NEW u, NEW sec, \A p \in course_participant: p[1] # u
    PROVE  Cardinality(Load(u, sec)) = 0
<1>1. Load(u, sec) = {}
  BY DEF Load
<1> QED
  BY <1>1, FS_EmptySet

LEMMA TeachStep ==
    ASSUME ~Overlap, EnrolInv, OneEnrolling, ViewsComplete, TeachInv, [EnrolNext]_allvars
    PROVE  TeachInv'
<1>0. TypeOK
  BY DEF EnrolInv, FiniteTypeOK
<1>1. ASSUME NEW s \in Sessions, Free(s), PersonStep(s), UNCHANGED <<enrolling, now>>
      PROVE  TeachInv'
  <2>1. \A t \in Sessions: enrolling'[t] = Idle
    BY <1>1 DEF Free
  <2>2. UNCHANGED course_participant
    BY <1>0, <1>1, PersonStepFrame
  <2>3. ASSUME NEW u \in DOMAIN person', NEW sec \in Sections, person'[u].type = "Faculty"
        PROVE  Cardinality(Load(u, sec)') <= 3
    <3>1. Load(u, sec)' = Load(u, sec)
      BY <2>2 DEF Load
    <3>2. CASE u \in DOMAIN person
      <4>1. person[u].type = "Faculty"
        BY <1>0, <1>1, <2>3, <3>2, PersonStepTypes
      <4> QED
        BY <3>1, <3>2, <4>1 DEF TeachInv, TeachingLimit
    <3>3. CASE u \notin DOMAIN person
      <4>1. \A p \in course_participant: p[1] # u
        BY <3>3 DEF ViewsComplete
      <4> QED
        BY <3>1, <4>1, NoLoad
    <3> QED
      BY <3>2, <3>3
  <2> QED
    BY <2>1, <2>3 DEF TeachInv, TeachingLimit
<1>2. ASSUME NEW s \in Sessions, NEW u \in DOMAIN person, NEW sec \in Sections,
             trigger_insert_participant(s, u, sec)
      PROVE  TeachInv'
  <2>1. UNCHANGED <<person, course_participant>>
    BY <1>2 DEF trigger_insert_participant, vars
  <2>2. \A w \in DOMAIN person, r \in Sections: Load(w, r)' = Load(w, r)
    BY <2>1 DEF Load
  <2>3. TeachingLimit'
    BY <2>1, <2>2 DEF TeachInv, TeachingLimit
  <2>4. \A t \in Sessions \ {s}: enrolling'[t] = Idle
    BY <1>2 DEF trigger_insert_participant, Free, EnrolInv
  <2>5. enrolling'[s] = <<u, sec>>
    BY <1>2 DEF trigger_insert_participant, EnrolInv
  <2>6. person[u].type = "Faculty" => Cardinality(Load(u, sec)) < 3
    BY <1>2 DEF trigger_insert_participant, Admitted, faculty_limit
  <2> QED
    BY <2>1, <2>2, <2>3, <2>4, <2>5, <2>6 DEF TeachInv
<1>3. ASSUME NEW s \in Sessions, InsertParticipant(s)
      PROVE  TeachInv'
  <2> DEFINE e == enrolling[s]
  <2>1. e # Idle /\ e \in Uni \X Sections
    BY <1>3 DEF InsertParticipant, EnrolInv
  <2>2. \A t \in Sessions: enrolling'[t] = Idle
    BY <1>3, <2>1 DEF InsertParticipant, EnrolInv, OneEnrolling
  <2>3. UNCHANGED person
    BY <1>3 DEF InsertParticipant
  <2>4. ASSUME NEW u \in DOMAIN person, NEW sec \in Sections, person[u].type = "Faculty"
        PROVE  Cardinality(Load(u, sec)') <= 3
    <3>1. CASE Load(u, sec)' = Load(u, sec)
      BY <2>4, <3>1 DEF TeachInv, TeachingLimit
    <3>2. CASE Load(u, sec)' # Load(u, sec)
      <4>1. /\ u = e[1]
            /\ SameSemester(e[2], sec)
            /\ Load(u, sec)' = Load(u, sec) \union {e}
        BY <1>3, <3>2 DEF InsertParticipant, Load
      <4>2. Load(u, sec) = Load(e[1], e[2])
        BY <4>1 DEF Load, SameSemester
      <4>3. Cardinality(Load(u, sec)) < 3
        BY <2>1, <2>4, <4>1, <4>2 DEF TeachInv
      <4>4. IsFiniteSet(Load(u, sec))
        BY FS_Subset DEF Load, OneEnrolling
      <4> HIDE DEF e
      <4>5. Cardinality(Load(u, sec) \union {e}) <= 3
        BY ZenonT(60), <4>3, <4>4, AddBelow
      <4> QED
        BY <4>1, <4>5
    <3> QED
      BY <3>1, <3>2
  <2> QED
    BY <2>2, <2>3, <2>4 DEF TeachInv, TeachingLimit
<1>4. CASE Tick \/ UNCHANGED allvars
  <2>1. UNCHANGED <<person, course_participant, enrolling>>
    BY <1>4 DEF Tick, allvars, vars
  <2>2. \A u, sec: Load(u, sec)' = Load(u, sec)
    BY <2>1 DEF Load
  <2> QED
    BY <2>1, <2>2 DEF TeachInv, TeachingLimit
<1> QED
  BY <1>1, <1>2, <1>3, <1>4 DEF EnrolNext

\* When statements do not overlap, nobody teaches more than three sections in a
\* semester ("faculty can not teach more than 3 sections"), whatever arguments
\* clients pass and whoever they delete.
THEOREM TeachingIsLimited ==
    ASSUME ~Overlap
    PROVE  EnrolSpec => []TeachingLimit
<1>1. EnrolInit => OneEnrolling /\ TeachInv
  <2> SUFFICES ASSUME EnrolInit PROVE OneEnrolling /\ TeachInv
    OBVIOUS
  <2>1. course_participant = {} /\ \A s \in Sessions: enrolling[s] = Idle
    BY DEF EnrolInit, Init
  <2>2. OneEnrolling
    BY <2>1, FS_EmptySet DEF OneEnrolling
  <2>3. TeachingLimit
    BY <2>1, NoLoad DEF TeachingLimit
  <2> QED
    BY <2>1, <2>2, <2>3 DEF TeachInv
<1>2. EnrolInv /\ OneEnrolling /\ [EnrolNext]_allvars => OneEnrolling'
  BY OneEnrollingStep
<1>3. EnrolInv /\ OneEnrolling /\ ViewsComplete /\ TeachInv /\ [EnrolNext]_allvars => TeachInv'
  BY TeachStep
<1>4. EnrolSpec => []ViewsComplete
  BY Refinement, ViewsAreComplete, PTL DEF RefinesPersonTables
<1>5. TeachInv => TeachingLimit
  BY DEF TeachInv
<1> QED
  BY <1>1, <1>2, <1>3, <1>4, <1>5, EnrolInvariant, PTL DEF EnrolSpec

-----------------------------------------------------------------------------
(* Prerequisites, while no uni changes hands under a statement.            *)

NoDeletion ==
    \A s \in Sessions: call[s] # Idle => call[s].pc \notin {"delete_derived", "delete_person"}

\* Without calls of the delete procedures no session reaches their statements.
LEMMA NoDeletionStep ==
    ASSUME "delete" \notin Ops, TypeOK, NoDeletion, [Next]_vars
    PROVE  NoDeletion'
<1> USE DEF NoDeletion
<1>1. ASSUME NEW s \in Sessions, NEW label \in {"trigger_person", "apply_direct", "update_person"},
             NEW type, NEW u, NEW attr, Begin(s, label, type, u, attr)
      PROVE  NoDeletion'
  BY <1>1 DEF Begin, TypeOK
<1>2. ASSUME NEW s \in Sessions, call[s] # Idle,
             NEW label \in {"insert_derived", "update_derived"}, Goto(s, label)
      PROVE  NoDeletion'
  <2>1. call[s] \in Call /\ call'[s] = [call[s] EXCEPT !.pc = label]
    BY <1>2 DEF Goto, TypeOK
  <2>2. call'[s].pc = label
    BY <2>1 DEF Call
  <2>3. \A t \in Sessions \ {s}: call'[t] = call[t]
    BY <1>2 DEF Goto, TypeOK
  <2> QED
    BY <2>2, <2>3
<1>3. ASSUME NEW s \in Sessions, Return(s)
      PROVE  NoDeletion'
  BY <1>3 DEF Return, TypeOK
<1>4. ASSUME NEW s \in Sessions, trigger_insert_person(s)
      PROVE  NoDeletion'
  <2> DEFINE c == [call[s] EXCEPT !.new = generate_uni(call[s].uni[1]), !.pc = "apply_person"]
  <2>1. call[s] \in Call
    BY <1>4 DEF trigger_insert_person, At, TypeOK
  <2>2. c.pc = "apply_person"
    BY <2>1 DEF Call
  <2>3. call' = [call EXCEPT ![s] = c]
    BY ZenonT(60), <1>4 DEF trigger_insert_person
  <2> HIDE DEF c
  <2> QED
    BY <2>2, <2>3 DEF TypeOK
<1>5. ASSUME NEW s \in Sessions, InsertPerson(s)
      PROVE  NoDeletion'
  BY <1>2, <1>3, <1>5 DEF InsertPerson, At
<1>6. ASSUME NEW s \in Sessions, UpdatePerson(s)
      PROVE  NoDeletion'
  BY <1>2, <1>6 DEF UpdatePerson, At
<1>7. ASSUME NEW s \in Sessions, InsertDerived(s) \/ UpdateDerived(s)
      PROVE  NoDeletion'
  BY <1>3, <1>7 DEF InsertDerived, UpdateDerived
<1>8. ASSUME NEW s \in Sessions, DeleteDerived(s) \/ DeletePerson(s)
      PROVE  FALSE
  BY <1>8 DEF DeleteDerived, DeletePerson, At
<1>9. CASE UNCHANGED call
  BY SMTT(60), <1>9
<1> QED
  BY ZenonT(60), <1>1, <1>4, <1>5, <1>6, <1>7, <1>8, <1>9
  DEF Next, PersonStep, insert_student, insert_faculty, StartInsert, DirectPerson,
      DirectDerived, update_student, update_faculty, StartUpdate, delete_student,
      delete_faculty, StartDelete, Enrol, vars

LEMMA PersonsStay ==
    ASSUME TypeOK, NoDeletion, NEW s \in Sessions, PersonStep(s)
    PROVE  DOMAIN person \subseteq DOMAIN person'
<1>1. CASE UNCHANGED person
  BY <1>1
<1>2. CASE InsertPerson(s)
  BY <1>2 DEF InsertPerson, Put
<1>3. CASE UpdatePerson(s)
  BY <1>3 DEF UpdatePerson, TypeOK
<1>4. ~DeletePerson(s)
  BY DEF DeletePerson, At, NoDeletion
<1> QED
  BY <1>1, <1>2, <1>3, <1>4
  DEF PersonStep, insert_student, insert_faculty, StartInsert, DirectPerson, Begin, tables,
      trigger_insert_person, InsertDerived, DirectDerived, update_student, update_faculty,
      StartUpdate, UpdateDerived, delete_student, delete_faculty, StartDelete, DeleteDerived

\* What prereq_valid found stays true until the row goes in.
PrereqInv ==
    /\ PrereqsEnrolled
    /\ \A s \in Sessions: enrolling[s] # Idle =>
          /\ enrolling[s][1] \in DOMAIN person
          /\ person[enrolling[s][1]].type = "Student" =>
                TakesPrereqs(enrolling[s][1], enrolling[s][2])

LEMMA PrereqStep ==
    ASSUME ~Overlap \/ NoDeletion, EnrolInv, ViewsComplete, PrereqInv, [EnrolNext]_allvars
    PROVE  PrereqInv'
<1>0. TypeOK
  BY DEF EnrolInv, FiniteTypeOK
<1>1. ASSUME NEW s \in Sessions, Free(s), PersonStep(s), UNCHANGED <<enrolling, now>>
      PROVE  PrereqInv'
  <2>1. UNCHANGED course_participant
    BY <1>0, <1>1, PersonStepFrame
  <2>2. \A u, sec: TakesPrereqs(u, sec)' = TakesPrereqs(u, sec)
    BY <2>1 DEF TakesPrereqs
  <2>3. PrereqsEnrolled'
    <3> SUFFICES ASSUME NEW p \in course_participant, person'[p[1]].type = "Student"
                 PROVE  TakesPrereqs(p[1], p[2])
      BY <2>1, <2>2 DEF PrereqsEnrolled
    <3>1. p[1] \in DOMAIN person
      BY DEF ViewsComplete
    <3>2. person[p[1]].type = "Student"
      BY <1>0, <1>1, <3>1, PersonStepTypes
    <3> QED
      BY <3>2 DEF PrereqInv, PrereqsEnrolled
  <2>4. CASE ~Overlap
    <3>1. \A t \in Sessions: enrolling'[t] = Idle
      BY <1>1, <2>4 DEF Free
    <3> QED
      BY <2>3, <3>1 DEF PrereqInv
  <2>5. CASE NoDeletion
    <3>1. \A u \in DOMAIN person: u \in DOMAIN person' /\ person'[u].type = person[u].type
      <4> TAKE u \in DOMAIN person
      <4>1. u \in DOMAIN person'
        BY <1>0, <1>1, <2>5, PersonsStay
      <4> QED
        BY <1>0, <1>1, <4>1, PersonStepTypes
    <3> QED
      BY <1>1, <2>2, <2>3, <3>1 DEF PrereqInv
  <2> QED
    BY <2>4, <2>5
<1>2. ASSUME NEW s \in Sessions, NEW u \in DOMAIN person, NEW sec \in Sections,
             trigger_insert_participant(s, u, sec)
      PROVE  PrereqInv'
  <2>1. UNCHANGED <<person, course_participant>>
    BY <1>2 DEF trigger_insert_participant, vars
  <2>2. \A w, r: TakesPrereqs(w, r)' = TakesPrereqs(w, r)
    BY <2>1 DEF TakesPrereqs
  <2>3. PrereqsEnrolled'
    BY <2>1, <2>2 DEF PrereqInv, PrereqsEnrolled
  <2>4. \A t \in Sessions \ {s}: enrolling'[t] = enrolling[t]
    BY <1>2 DEF trigger_insert_participant, EnrolInv
  <2>5. enrolling'[s] = <<u, sec>>
    BY <1>2 DEF trigger_insert_participant, EnrolInv
  <2>6. ASSUME person[u].type = "Student"
        PROVE  TakesPrereqs(u, sec)
    <3>1. prereq_valid(u, sec)
      BY <1>2, <2>6 DEF trigger_insert_participant, Admitted
    <3> SUFFICES ASSUME NEW r \in Prereqs, r[1] = Section[sec].course
                 PROVE  \E q \in course_participant: q[1] = u /\ Section[q[2]].course = r[2]
      BY DEF TakesPrereqs
    <3>2. r[2] \in completed_course(u)
      BY <3>1 DEF prereq_valid
    <3> QED
      BY <3>2 DEF completed_course
  <2> QED
    BY <2>1, <2>2, <2>3, <2>4, <2>5, <2>6 DEF PrereqInv
<1>3. ASSUME NEW s \in Sessions, InsertParticipant(s)
      PROVE  PrereqInv'
  <2> DEFINE e == enrolling[s]
  <2>1. e # Idle /\ e \in Uni \X Sections
    BY <1>3 DEF InsertParticipant, EnrolInv
  <2>2. /\ course_participant \subseteq course_participant'
        /\ course_participant' \subseteq course_participant \union {e}
        /\ UNCHANGED person
        /\ \A t \in Sessions: enrolling'[t] = Idle \/ enrolling'[t] = enrolling[t]
    BY <1>3 DEF InsertParticipant, EnrolInv
  <2>3. \A u, sec: TakesPrereqs(u, sec) => TakesPrereqs(u, sec)'
    BY <2>2 DEF TakesPrereqs
  <2>4. PrereqsEnrolled'
    BY <2>1, <2>2, <2>3 DEF PrereqInv, PrereqsEnrolled
  <2> QED
    BY <2>2, <2>3, <2>4 DEF PrereqInv
<1>4. CASE Tick \/ UNCHANGED allvars
  <2>1. UNCHANGED <<person, course_participant, enrolling>>
    BY <1>4 DEF Tick, allvars, vars
  <2>2. \A u, sec: TakesPrereqs(u, sec)' = TakesPrereqs(u, sec)
    BY <2>1 DEF TakesPrereqs
  <2> QED
    BY <2>1, <2>2 DEF PrereqInv, PrereqsEnrolled
<1> QED
  BY <1>1, <1>2, <1>3, <1>4 DEF EnrolNext

\* Students take part in sections of the prerequisites of their sections
\* (prereq_valid), as long as statements do not overlap or nobody is deleted.
THEOREM PrereqsAreEnrolled ==
    ASSUME ~Overlap \/ "delete" \notin Ops
    PROVE  EnrolSpec => []PrereqsEnrolled
<1> DEFINE J == (Overlap => NoDeletion) /\ PrereqInv
<1>1. EnrolInit => J
  BY DEF EnrolInit, Init, NoDeletion, PrereqInv, PrereqsEnrolled
<1>2. EnrolInv /\ ViewsComplete /\ J /\ [EnrolNext]_allvars => J'
  <2> SUFFICES ASSUME EnrolInv, ViewsComplete, J, [EnrolNext]_allvars
               PROVE  J'
    OBVIOUS
  <2>1. PrereqInv'
    BY PrereqStep
  <2>2. ASSUME Overlap
        PROVE  NoDeletion'
    <3>1. TypeOK /\ [Next]_vars
      BY EnrolStep DEF EnrolInv, FiniteTypeOK
    <3> QED
      BY <2>2, <3>1, NoDeletionStep
  <2> QED
    BY <2>1, <2>2
<1>3. EnrolSpec => []ViewsComplete
  BY Refinement, ViewsAreComplete, PTL DEF RefinesPersonTables
<1>4. J => PrereqsEnrolled
  BY DEF PrereqInv
<1> HIDE DEF J
<1> QED
  BY <1>1, <1>2, <1>3, <1>4, EnrolInvariant, PTL DEF EnrolSpec
-----------------------------------------------------------------------------
(* How far overlapping statements overrun the limits.                      *)

\* A row that goes in takes the place of the session that was adding it.
LEMMA HandOver ==
    ASSUME NEW R, IsFiniteSet(R), NEW S, IsFiniteSet(S), NEW r, NEW s \in S
    PROVE  Cardinality(R \union {r}) + Cardinality(S \ {s}) <= Cardinality(R) + Cardinality(S)
<1>1. Cardinality(R) \in Nat /\ Cardinality(S) \in Nat
  BY FS_CardinalityType
<1>2. Cardinality(R \union {r}) = Cardinality(R) \/ Cardinality(R \union {r}) = Cardinality(R) + 1
  BY ZenonT(60), FS_AddElement
<1>3. Cardinality(S \ {s}) = Cardinality(S) - 1
  BY ZenonT(60), FS_RemoveElement
<1> QED
  BY <1>1, <1>2, <1>3

\* The cardinality of a part of a finite set.
LEMMA PartOf ==
    ASSUME NEW S, IsFiniteSet(S), NEW T \in SUBSET S
    PROVE  /\ IsFiniteSet(T) /\ Cardinality(T) \in Nat /\ Cardinality(S) \in Nat
           /\ Cardinality(T) <= Cardinality(S)
  BY FS_Subset, FS_CardinalityType

\* The sessions that are about to give u a section in the semester of sec.
Assigning(u, sec) ==
    {s \in Sessions: /\ enrolling[s] # Idle
                     /\ enrolling[s][1] = u /\ SameSemester(enrolling[s][2], sec)}

\* Every session passed faculty_limit before the last row that was added after
\* its check went in, so rows and sessions together are bounded.
TeachOverrunInv ==
    /\ IsFiniteSet(course_participant)
    /\ \A u \in DOMAIN person, sec \in Sections: person[u].type = "Faculty" =>
           Cardinality(Load(u, sec)) + Cardinality(Assigning(u, sec)) <= 2 + Cardinality(Sessions)

LEMMA TeachOverrunStep ==
    ASSUME IsFiniteSet(Sessions), EnrolInv, ViewsComplete, TeachOverrunInv, [EnrolNext]_allvars
    PROVE  TeachOverrunInv'
<1>0. TypeOK
  BY DEF EnrolInv, FiniteTypeOK
<1>1. \A u, sec: /\ Assigning(u, sec) \in SUBSET Sessions
                 /\ Assigning(u, sec)' \in SUBSET Sessions
                 /\ Load(u, sec) \in SUBSET course_participant
  BY DEF Assigning, Load
<1>2. Cardinality(Sessions) \in Nat
  BY FS_CardinalityType
<1>3. ASSUME NEW s \in Sessions, PersonStep(s), UNCHANGED <<enrolling, now>>
      PROVE  TeachOverrunInv'
  <2>1. UNCHANGED course_participant
    BY <1>0, <1>3, PersonStepFrame
  <2>2. ASSUME NEW u \in DOMAIN person', NEW sec \in Sections, person'[u].type = "Faculty"
        PROVE  Cardinality(Load(u, sec)') + Cardinality(Assigning(u, sec)')
                 <= 2 + Cardinality(Sessions)
    <3>1. Load(u, sec)' = Load(u, sec) /\ Assigning(u, sec)' = Assigning(u, sec)
      BY <1>3, <2>1 DEF Load, Assigning
    <3>2. CASE u \in DOMAIN person
      <4>1. person[u].type = "Faculty"
        BY <1>0, <1>3, <2>2, <3>2, PersonStepTypes
      <4> QED
        BY SMTT(60), <3>1, <3>2, <4>1 DEF TeachOverrunInv
    <3>3. CASE u \notin DOMAIN person
      <4>1. \A p \in course_participant: p[1] # u
        BY <3>3 DEF ViewsComplete
      <4>2. Cardinality(Load(u, sec)) = 0
        BY <4>1, NoLoad
      <4>3. Cardinality(Assigning(u, sec)) \in Nat
            /\ Cardinality(Assigning(u, sec)) <= Cardinality(Sessions)
        BY <1>1, PartOf
      <4> QED
        BY <1>2, <3>1, <4>2, <4>3
    <3> QED
      BY SMTT(60), <3>2, <3>3
  <2> QED
    BY <2>1, <2>2 DEF TeachOverrunInv
<1>4. ASSUME NEW s \in Sessions, NEW u \in DOMAIN person, NEW sec \in Sections,
             trigger_insert_participant(s, u, sec)
      PROVE  TeachOverrunInv'
  <2>1. UNCHANGED <<person, course_participant>>
    BY <1>4 DEF trigger_insert_participant, vars
  <2>2. enrolling' = [enrolling EXCEPT ![s] = <<u, sec>>] /\ enrolling[s] = Idle
    BY <1>4 DEF trigger_insert_participant, Free
  <2>3. ASSUME NEW w \in DOMAIN person, NEW r \in Sections, person[w].type = "Faculty"
        PROVE  Cardinality(Load(w, r)') + Cardinality(Assigning(w, r)')
                 <= 2 + Cardinality(Sessions)
    <3>1. Load(w, r)' = Load(w, r)
      BY <2>1 DEF Load
    <3>2. CASE w = u /\ SameSemester(sec, r)
      <4>1. Load(w, r) = Load(u, sec)
        BY SMTT(60), <3>2 DEF Load, SameSemester
      <4>2. Cardinality(Load(w, r)) < 3
        BY <1>4, <2>3, <3>2, <4>1 DEF trigger_insert_participant, Admitted, faculty_limit
      <4>3. Cardinality(Load(w, r)) \in Nat
        BY <1>1, PartOf DEF TeachOverrunInv
      <4>4. Cardinality(Assigning(w, r)') \in Nat
            /\ Cardinality(Assigning(w, r)') <= Cardinality(Sessions)
        BY <1>1, PartOf
      <4> QED
        BY SMTT(60), <1>2, <3>1, <4>2, <4>3, <4>4
    <3>3. CASE ~(w = u /\ SameSemester(sec, r))
      <4>1. Assigning(w, r)' = Assigning(w, r)
        BY <2>2, <3>3 DEF Assigning, EnrolInv, SameSemester
      <4> QED
        BY <2>3, <3>1, <4>1 DEF TeachOverrunInv
    <3> QED
      BY <3>2, <3>3
  <2> QED
    BY <2>1, <2>3 DEF TeachOverrunInv
<1>5. ASSUME NEW s \in Sessions, InsertParticipant(s)
      PROVE  TeachOverrunInv'
  <2> DEFINE e == enrolling[s]
  <2>1. e # Idle /\ enrolling' = [enrolling EXCEPT ![s] = Idle] /\ UNCHANGED person
    BY <1>5 DEF InsertParticipant
  <2>2. IsFiniteSet(course_participant')
    BY <1>5, FS_AddElement DEF InsertParticipant, TeachOverrunInv
  <2>3. ASSUME NEW w \in DOMAIN person, NEW r \in Sections, person[w].type = "Faculty"
        PROVE  Cardinality(Load(w, r)') + Cardinality(Assigning(w, r)')
                 <= 2 + Cardinality(Sessions)
    <3>1. Cardinality(Load(w, r)) + Cardinality(Assigning(w, r)) <= 2 + Cardinality(Sessions)
      BY <2>3 DEF TeachOverrunInv
    <3>2. IsFiniteSet(Load(w, r)) /\ Cardinality(Load(w, r)) \in Nat
      BY <1>1, PartOf DEF TeachOverrunInv
    <3>3. IsFiniteSet(Assigning(w, r)) /\ Cardinality(Assigning(w, r)) \in Nat
      BY <1>1, PartOf
    <3>4. Assigning(w, r)' = Assigning(w, r) \ {s}
      BY <2>1 DEF Assigning, EnrolInv, SameSemester
    <3>5. CASE Load(w, r)' = Load(w, r)
      <4>1. Assigning(w, r)' \in SUBSET Assigning(w, r)
        BY <3>4
      <4>2. Cardinality(Assigning(w, r)') \in Nat
            /\ Cardinality(Assigning(w, r)') <= Cardinality(Assigning(w, r))
        BY SMTT(60), <3>3, <4>1, PartOf
      <4> QED
        BY <1>2, <3>1, <3>2, <3>3, <3>5, <4>2
    <3>6. CASE Load(w, r)' # Load(w, r)
      <4>1. /\ w = e[1]
            /\ SameSemester(e[2], r)
            /\ Load(w, r)' = Load(w, r) \union {e}
        BY SMTT(60), <1>5, <3>6 DEF InsertParticipant, Load
      <4>2. s \in Assigning(w, r)
        BY <2>1, <4>1 DEF Assigning
      <4> HIDE DEF e
      <4>3. Cardinality(Load(w, r) \union {e}) + Cardinality(Assigning(w, r) \ {s})
              <= Cardinality(Load(w, r)) + Cardinality(Assigning(w, r))
        BY ZenonT(60), <3>2, <3>3, <4>2, HandOver
      <4>4. Cardinality(Load(w, r)') \in Nat /\ Cardinality(Assigning(w, r)') \in Nat
        BY SMTT(60), <3>2, <3>3, <3>4, <4>1, FS_AddElement, FS_CardinalityType, FS_RemoveElement
      <4> QED
        BY SMTT(60), <1>2, <3>1, <3>2, <3>3, <3>4, <4>1, <4>3, <4>4
    <3> QED
      BY <3>5, <3>6
  <2> QED
    BY <2>1, <2>2, <2>3 DEF TeachOverrunInv
<1>6. CASE Tick \/ UNCHANGED allvars
  <2>1. UNCHANGED <<person, course_participant, enrolling>>
    BY <1>6 DEF Tick, allvars, vars
  <2>2. \A u, sec: Load(u, sec)' = Load(u, sec) /\ Assigning(u, sec)' = Assigning(u, sec)
    BY <2>1 DEF Load, Assigning
  <2> QED
    BY <2>1, <2>2 DEF TeachOverrunInv
<1> QED
  BY <1>3, <1>4, <1>5, <1>6 DEF EnrolNext

\* However clients overlap, whatever arguments they pass and whoever they delete,
\* the check in faculty_limit is overrun by at most one section per further
\* session.
THEOREM TeachingOverrunIsBounded ==
    ASSUME IsFiniteSet(Sessions)
    PROVE  EnrolSpec => []TeachingOverrun
<1>1. EnrolInit => TeachOverrunInv
  <2> SUFFICES ASSUME EnrolInit PROVE TeachOverrunInv
    OBVIOUS
  <2>1. course_participant = {} /\ DOMAIN person = {}
    BY DEF EnrolInit, Init, Empty
  <2> QED
    BY <2>1, FS_EmptySet DEF TeachOverrunInv
<1>2. EnrolInv /\ ViewsComplete /\ TeachOverrunInv /\ [EnrolNext]_allvars => TeachOverrunInv'
  BY TeachOverrunStep
<1>3. TeachOverrunInv => TeachingOverrun
  <2> SUFFICES ASSUME TeachOverrunInv, NEW u \in DOMAIN person, NEW sec \in Sections,
                      person[u].type = "Faculty"
               PROVE  Cardinality(Load(u, sec)) <= 3 + Overrun
    BY DEF TeachingOverrun
  <2>1. Assigning(u, sec) \in SUBSET Sessions /\ Load(u, sec) \in SUBSET course_participant
    BY DEF Assigning, Load
  <2>2. /\ Cardinality(Load(u, sec)) \in Nat
        /\ Cardinality(Assigning(u, sec)) \in Nat
        /\ Cardinality(Sessions) \in Nat
    BY <2>1, PartOf DEF TeachOverrunInv
  <2>3. Cardinality(Load(u, sec)) + Cardinality(Assigning(u, sec)) <= 2 + Cardinality(Sessions)
    BY DEF TeachOverrunInv
  <2> QED
    BY <2>2, <2>3 DEF Overrun
<1>4. EnrolSpec => []ViewsComplete
  BY Refinement, ViewsAreComplete, PTL DEF RefinesPersonTables
<1> QED
  BY <1>1, <1>2, <1>3, <1>4, EnrolInvariant, PTL DEF EnrolSpec
\* Without the delete procedures no derived row goes away.
LEMMA DerivedStay ==
    ASSUME TypeOK, NoDeletion, NEW s \in Sessions, PersonStep(s), NEW kind \in Kinds
    PROVE  DOMAIN derived[kind] \subseteq DOMAIN derived'[kind]
<1> USE DEF TypeOK
<1>1. CASE UNCHANGED derived
  BY <1>1
<1>2. CASE InsertDerived(s)
  BY <1>2 DEF InsertDerived, Put
<1>3. CASE \E k \in Kinds, u \in DOMAIN person, a \in Attrs: DirectDerived(s, k, u, a)
  BY <1>3 DEF DirectDerived, Put
<1>4. CASE UpdateDerived(s)
  BY <1>4 DEF UpdateDerived
<1>5. ~DeleteDerived(s)
  BY DEF DeleteDerived, At, NoDeletion
<1> QED
  BY SMTT(60), <1>1, <1>2, <1>3, <1>4, <1>5
  DEF PersonStep, insert_student, insert_faculty, StartInsert, DirectPerson, Begin, tables,
      trigger_insert_person, InsertPerson, update_student, update_faculty,
      StartUpdate, UpdatePerson, delete_student, delete_faculty, StartDelete, DeletePerson

\* The sessions that are about to add a student to sec.
Seating(sec) ==
    {s \in Sessions: /\ enrolling[s] # Idle /\ enrolling[s][2] = sec
                     /\ person[enrolling[s][1]].type = "Student"}

\* student_limit counts the students of the view: those who have a row in Student.
Registered ==
    {u \in DOMAIN person: person[u].type = "Student" => u \in DOMAIN derived["Student"]}

SeatOverrunInv ==
    /\ IsFiniteSet(course_participant)
    /\ \A p \in course_participant: p[1] \in Registered
    /\ \A s \in Sessions: enrolling[s] # Idle => enrolling[s][1] \in Registered
    /\ \A sec \in Sections:
         Cardinality(Students(sec)) + Cardinality(Seating(sec))
           <= Section[sec].enrollment_limit + Overrun

LEMMA SeatOverrunStep ==
    ASSUME IsFiniteSet(Sessions), Careful, NoDeletion, EnrolInv, SeatOverrunInv,
           [EnrolNext]_allvars
    PROVE  SeatOverrunInv'
<1> USE ParticipationAssumption
<1>0. TypeOK
  BY DEF EnrolInv, FiniteTypeOK
<1>1. \A sec: /\ Seating(sec) \in SUBSET Sessions
              /\ Seating(sec)' \in SUBSET Sessions
              /\ Students(sec) \in SUBSET course_participant
  BY DEF Seating, Students
<1>2. /\ Cardinality(Sessions) \in Nat
      /\ \A sec \in Sections: Section[sec].enrollment_limit \in Nat
  BY SMTT(60), FS_CardinalityType
<1>3. ASSUME NEW s \in Sessions, PersonStep(s), UNCHANGED <<enrolling, now>>
      PROVE  SeatOverrunInv'
  <2>1. UNCHANGED course_participant
    BY <1>0, <1>3, PersonStepFrame
  <2>2. \A u \in DOMAIN person: u \in DOMAIN person' /\ person'[u].type = person[u].type
    <3> TAKE u \in DOMAIN person
    <3>1. u \in DOMAIN person'
      BY <1>0, <1>3, PersonsStay
    <3> QED
      BY SMTT(60), <1>0, <1>3, <3>1, PersonStepTypes
  <2>3. DOMAIN derived["Student"] \subseteq DOMAIN derived'["Student"]
    BY <1>0, <1>3, DerivedStay DEF Kinds
  <2>4. Registered \subseteq Registered'
    BY SMTT(60), <2>2, <2>3 DEF Registered
  <2>5. \A sec \in Sections: Students(sec)' = Students(sec) /\ Seating(sec)' = Seating(sec)
    BY SMTT(60), <1>3, <2>1, <2>2 DEF Students, Seating, SeatOverrunInv, Registered
  <2> QED
    BY <1>3, <2>1, <2>4, <2>5 DEF SeatOverrunInv
<1>4. ASSUME NEW s \in Sessions, NEW u \in DOMAIN person, NEW sec \in Sections,
             trigger_insert_participant(s, u, sec)
      PROVE  SeatOverrunInv'
  <2>1. UNCHANGED <<person, derived, course_participant>>
    BY SMTT(60), <1>4 DEF trigger_insert_participant, vars
  <2>2. enrolling' = [enrolling EXCEPT ![s] = <<u, sec>>] /\ enrolling[s] = Idle
    BY SMTT(60), <1>4 DEF trigger_insert_participant, Free
  <2>3. u \in Registered
    BY <1>4 DEF trigger_insert_participant, Registered
  <2>4. Registered' = Registered
    BY SMTT(60), <2>1 DEF Registered
  <2>5. \A t \in Sessions: enrolling'[t] # Idle => enrolling'[t][1] \in Registered'
    BY SMTT(60), <2>2, <2>3, <2>4 DEF SeatOverrunInv, EnrolInv
  <2>6. ASSUME NEW r \in Sections
        PROVE  Cardinality(Students(r)') + Cardinality(Seating(r)')
                 <= Section[r].enrollment_limit + Overrun
    <3>1. Students(r)' = Students(r)
      BY <2>1 DEF Students
    <3>2. CASE r = sec /\ person[u].type = "Student"
      <4>1. Cardinality(Attending(r)) < Section[r].enrollment_limit
        BY SMTT(60), <1>4, <3>2 DEF trigger_insert_participant, Admitted, student_limit
      <4>2. Students(r) \in SUBSET Attending(r) /\ Attending(r) \in SUBSET course_participant
        BY DEF Students, Attending, student_view, SeatOverrunInv, Registered
      <4>3. IsFiniteSet(Attending(r)) /\ Cardinality(Attending(r)) \in Nat
        BY <4>2, PartOf DEF SeatOverrunInv
      <4>4. Cardinality(Students(r)) \in Nat
            /\ Cardinality(Students(r)) <= Cardinality(Attending(r))
        BY <4>2, <4>3, PartOf
      <4>5. Cardinality(Seating(r)') \in Nat
            /\ Cardinality(Seating(r)') <= Cardinality(Sessions)
        BY <1>1, PartOf
      <4> QED
        BY SMTT(60), <1>2, <3>1, <4>1, <4>3, <4>4, <4>5 DEF Overrun
    <3>3. CASE ~(r = sec /\ person[u].type = "Student")
      <4>1. Seating(r)' = Seating(r)
        BY SMTT(60), <2>1, <2>2, <3>3 DEF Seating, EnrolInv
      <4> QED
        BY SMTT(60), <3>1, <4>1 DEF SeatOverrunInv
    <3> QED
      BY <3>2, <3>3
  <2> QED
    BY SMTT(60), <2>1, <2>4, <2>5, <2>6 DEF SeatOverrunInv, Overrun
<1>5. ASSUME NEW s \in Sessions, InsertParticipant(s)
      PROVE  SeatOverrunInv'
  <2> DEFINE e == enrolling[s]
  <2>1. /\ e # Idle /\ enrolling' = [enrolling EXCEPT ![s] = Idle]
        /\ UNCHANGED <<person, derived>>
        /\ course_participant' \subseteq course_participant \union {e}
    BY SMTT(60), <1>5 DEF InsertParticipant
  <2>2. IsFiniteSet(course_participant')
    BY SMTT(60), <1>5, FS_AddElement DEF InsertParticipant, SeatOverrunInv
  <2>3. Registered' = Registered
    BY <2>1 DEF Registered
  <2>4. /\ \A p \in course_participant': p[1] \in Registered'
        /\ \A t \in Sessions: enrolling'[t] # Idle => enrolling'[t][1] \in Registered'
    BY <2>1, <2>3 DEF SeatOverrunInv, EnrolInv
  <2>5. ASSUME NEW r \in Sections
        PROVE  Cardinality(Students(r)') + Cardinality(Seating(r)')
                 <= Section[r].enrollment_limit + Overrun
    <3>1. Cardinality(Students(r)) + Cardinality(Seating(r))
            <= Section[r].enrollment_limit + Overrun
      BY SMTT(60) DEF SeatOverrunInv
    <3>2. IsFiniteSet(Students(r)) /\ Cardinality(Students(r)) \in Nat
      BY <1>1, PartOf DEF SeatOverrunInv
    <3>3. IsFiniteSet(Seating(r)) /\ Cardinality(Seating(r)) \in Nat
      BY SMTT(60), <1>1, PartOf
    <3>4. Seating(r)' = Seating(r) \ {s}
      BY <2>1 DEF Seating, EnrolInv
    <3>5. CASE Students(r)' = Students(r)
      <4>1. Seating(r)' \in SUBSET Seating(r)
        BY <3>4
      <4>2. Cardinality(Seating(r)') \in Nat
            /\ Cardinality(Seating(r)') <= Cardinality(Seating(r))
        BY SMTT(60), <3>3, <4>1, PartOf
      <4> QED
        BY <1>2, <3>1, <3>2, <3>3, <3>5, <4>2 DEF Overrun
    <3>6. CASE Students(r)' # Students(r)
      <4>1. /\ r = e[2]
            /\ person[e[1]].type = "Student"
            /\ Students(r)' = Students(r) \union {e}
        BY SMTT(60), <1>5, <3>6 DEF InsertParticipant, Students
      <4>2. s \in Seating(r)
        BY <2>1, <4>1 DEF Seating
      <4> HIDE DEF e
      <4>3. Cardinality(Students(r) \union {e}) + Cardinality(Seating(r) \ {s})
              <= Cardinality(Students(r)) + Cardinality(Seating(r))
        BY ZenonT(60), <3>2, <3>3, <4>2, HandOver
      <4>4. Cardinality(Students(r)') \in Nat /\ Cardinality(Seating(r)') \in Nat
        BY ZenonT(60), <3>2, <3>3, <3>4, <4>1, FS_AddElement, FS_CardinalityType, FS_RemoveElement
      <4> QED
        BY SMTT(60), <1>2, <3>1, <3>2, <3>3, <3>4, <4>1, <4>3, <4>4 DEF Overrun
    <3> QED
      BY <3>5, <3>6
  <2> QED
    BY <2>2, <2>4, <2>5 DEF SeatOverrunInv, Overrun
<1>6. CASE Tick \/ UNCHANGED allvars
  <2>1. UNCHANGED <<person, derived, course_participant, enrolling>>
    BY <1>6 DEF Tick, allvars, vars
  <2>2. \A sec: Students(sec)' = Students(sec) /\ Seating(sec)' = Seating(sec)
    BY <2>1 DEF Students, Seating
  <2>3. Registered' = Registered
    BY <2>1 DEF Registered
  <2> QED
    BY <2>1, <2>2, <2>3 DEF SeatOverrunInv, Overrun
<1> QED
  BY <1>3, <1>4, <1>5, <1>6 DEF EnrolNext

\* However clients overlap that enrol only persons whose own derived row is
\* there, and as long as nobody is deleted, the check in student_limit is overrun
\* by at most one student per further session.
THEOREM SeatOverrunIsBounded ==
    ASSUME IsFiniteSet(Sessions), Sessions # {}, Careful, "delete" \notin Ops
    PROVE  EnrolSpec => []SeatOverrun
<1> USE ParticipationAssumption
<1>1. EnrolInit => NoDeletion /\ SeatOverrunInv
  <2> SUFFICES ASSUME EnrolInit PROVE NoDeletion /\ SeatOverrunInv
    OBVIOUS
  <2>1. /\ course_participant = {} /\ \A s \in Sessions: enrolling[s] = Idle
        /\ \A s \in Sessions: call[s] = Idle
    BY SMTT(60) DEF EnrolInit, Init
  <2>2. \A sec: Students(sec) = {} /\ Seating(sec) = {}
    BY <2>1 DEF Students, Seating
  <2>3. \A sec: Cardinality(Students(sec)) = 0 /\ Cardinality(Seating(sec)) = 0
    BY ZenonT(60), <2>2, FS_EmptySet
  <2>4. Cardinality(Sessions) \in Nat /\ Cardinality(Sessions) # 0
    BY FS_CardinalityType, FS_EmptySet
  <2>5. \A sec \in Sections: Section[sec].enrollment_limit \in Nat
    OBVIOUS
  <2>6. \A sec \in Sections: 0 <= Section[sec].enrollment_limit + Overrun
    BY <2>4, <2>5 DEF Overrun
  <2> QED
    BY SMTT(60), <2>1, <2>3, <2>6, FS_EmptySet DEF SeatOverrunInv, NoDeletion
<1>2. EnrolInv /\ NoDeletion /\ [EnrolNext]_allvars => NoDeletion'
  <2> SUFFICES ASSUME EnrolInv, NoDeletion, [EnrolNext]_allvars PROVE NoDeletion'
    OBVIOUS
  <2>1. TypeOK /\ [Next]_vars
    BY EnrolStep DEF EnrolInv, FiniteTypeOK
  <2> QED
    BY <2>1, NoDeletionStep
<1>3. EnrolInv /\ NoDeletion /\ SeatOverrunInv /\ [EnrolNext]_allvars => SeatOverrunInv'
  BY SeatOverrunStep
<1>4. SeatOverrunInv => SeatOverrun
  <2> SUFFICES ASSUME SeatOverrunInv, NEW sec \in Sections
               PROVE  Cardinality(Students(sec)) <= Section[sec].enrollment_limit + Overrun
    BY DEF SeatOverrun
  <2>1. Seating(sec) \in SUBSET Sessions /\ Students(sec) \in SUBSET course_participant
    BY DEF Seating, Students
  <2>2. /\ Cardinality(Students(sec)) \in Nat
        /\ Cardinality(Seating(sec)) \in Nat
        /\ Cardinality(Sessions) \in Nat
    BY <2>1, PartOf DEF SeatOverrunInv
  <2>3. Section[sec].enrollment_limit \in Nat
    OBVIOUS
  <2>4. Cardinality(Students(sec)) + Cardinality(Seating(sec))
          <= Section[sec].enrollment_limit + Overrun
    BY DEF SeatOverrunInv
  <2> QED
    BY <2>2, <2>3, <2>4 DEF Overrun
<1> QED
  BY <1>1, <1>2, <1>3, <1>4, EnrolInvariant, PTL DEF EnrolSpec
==============================================================================
