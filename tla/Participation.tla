---------------------------- MODULE Participation ----------------------------
(***************************************************************************)
(* Enrolling and teaching (hw3_advanced.sql): the trigger on               *)
(* course_participant with the functions and the view it calls, over the   *)
(* tables and procedures of PersonTables.                                  *)
(*                                                                         *)
(* The trigger only reads, so an INSERT is two steps: the checks, then the *)
(* row with its keys.  An INSERT that is refused changes nothing.          *)
(***************************************************************************)
EXTENDS PersonTables

CONSTANTS
    Section,  \* table sections: call_no -> [course, year, semester, enrollment_limit]
    Prereqs,  \* table course_prereqs: <<course_id, prereq_id>> pairs
    Dates,    \* bound: the <<year, month>> pairs the clock shows
    MaxRows   \* bound: number of participants after which nobody enrols

VARIABLES
    enrolling,  \* per session: the row its INSERT is about to add, or Idle
    now         \* the current year and month

allvars == <<vars, enrolling, now>>

Semesters == 1..4

\* Every section has its own limit; a NULL limit admits nobody, as 0 does.
ASSUME ParticipationAssumption ==
    /\ Section \in [Sections -> [course: STRING, year: Nat, semester: Semesters,
                                 enrollment_limit: Nat]]
    /\ Prereqs \subseteq STRING \X STRING
    /\ Dates \subseteq Nat \X (1..12)
    /\ MaxRows \in Nat
    /\ Idle \notin Uni \X Sections

EnrolTypeOK ==
    /\ TypeOK
    /\ enrolling \in [Sessions -> (Uni \X Sections) \union {Idle}]
    /\ now \in Dates

EnrolInit ==
    /\ Init
    /\ enrolling = [s \in Sessions |-> Idle]
    /\ now \in Dates

-----------------------------------------------------------------------------
(* Functions and views                                                     *)

convert_semester(month) ==
    CASE month \in {9, 10, 11, 12} -> 1
      [] month \in {1, 2, 3, 4} -> 2
      [] month \in {5, 6} -> 3
      [] month \in {7, 8} -> 4

\* The WHERE clause of completed_course.
Completed(sec) ==
    \/ now[1] > Section[sec].year
    \/ now[1] = Section[sec].year /\ convert_semester(now[2]) > Section[sec].semester

completed_course(u) ==
    {Section[p[2]].course : p \in {q \in course_participant : q[1] = u /\ Completed(q[2])}}

student_view == DOMAIN derived["Student"] \intersect DOMAIN person

prereq_valid_Any(u, sec) ==
    LET required == {r[2] : r \in {q \in Prereqs : q[1] = Section[sec].course}} IN
    required = {} \/ required \intersect completed_course(u) # {}

\* No prerequisite of the section's course is missing from completed_course.
prereq_valid(u, sec) ==
    {r[2] : r \in {q \in Prereqs : q[1] = Section[sec].course}} \subseteq completed_course(u)

Attending(sec) == {p \in course_participant : p[2] = sec /\ p[1] \in student_view}

student_limit_AtMost(sec) == Cardinality(Attending(sec)) <= Section[sec].enrollment_limit

student_limit(sec) == Cardinality(Attending(sec)) < Section[sec].enrollment_limit

SameSemester(a, b) ==
    Section[a].year = Section[b].year /\ Section[a].semester = Section[b].semester

\* The sections a person takes part in, in the semester of section sec.
Load(u, sec) == {p \in course_participant : p[1] = u /\ SameSemester(p[2], sec)}

faculty_limit_AtMost(u, sec) == Cardinality(Load(u, sec)) <= 3

faculty_limit(u, sec) == Cardinality(Load(u, sec)) < 3

-----------------------------------------------------------------------------
(* INSERT INTO course_participant                                          *)

\* What trigger_insert_participant lets through.
Admitted(u, sec) ==
    /\ u \in DOMAIN person
    /\ person[u].type \in Kinds
    /\ person[u].type = "Student" => prereq_valid(u, sec) /\ student_limit(sec)
    /\ person[u].type = "Faculty" => faculty_limit(u, sec)

\* The session is in no statement and, without overlap, no other is.
Free(s) ==
    /\ enrolling[s] = Idle
    /\ Overlap \/ \A t \in Sessions: enrolling[t] = Idle

\* A careful client enrols only persons whose insert procedure has returned:
\* the derived row of their type is there.
trigger_insert_participant(s, u, sec) ==
    /\ "enrol" \in Ops
    /\ Cardinality(course_participant) < MaxRows
    /\ Free(s)
    /\ Ready(s)
    /\ Careful => \E kind \in Kinds: person[u].type = kind /\ u \in DOMAIN derived[kind]
    /\ Admitted(u, sec)
    /\ enrolling' = [enrolling EXCEPT ![s] = <<u, sec>>]
    /\ UNCHANGED <<vars, now>>

InsertParticipant_KeyIsUni(s) ==
    /\ enrolling[s] # Idle
    /\ course_participant' = {p \in course_participant : p[1] # enrolling[s][1]}
                             \union {enrolling[s]}
    /\ enrolling' = [enrolling EXCEPT ![s] = Idle]
    /\ UNCHANGED <<person, derived, call, calls, now>>

\* The row goes in unless it is there already or its person is gone.
InsertParticipant(s) ==
    /\ enrolling[s] # Idle
    /\ course_participant' = IF enrolling[s][1] \in DOMAIN person
                             THEN course_participant \union {enrolling[s]}
                             ELSE course_participant
    /\ enrolling' = [enrolling EXCEPT ![s] = Idle]
    /\ UNCHANGED <<person, derived, call, calls, now>>

After(d, e) == d[1] > e[1] \/ (d[1] = e[1] /\ d[2] > e[2])

Tick ==
    /\ now' \in {d \in Dates : After(d, now)}
    /\ UNCHANGED <<vars, enrolling>>

EnrolNext ==
    \/ \E s \in Sessions:
         \/ Free(s) /\ PersonStep(s) /\ UNCHANGED <<enrolling, now>>
         \/ \E u \in DOMAIN person, sec \in Sections: trigger_insert_participant(s, u, sec)
         \/ InsertParticipant(s)
    \/ Tick

EnrolSpec == EnrolInit /\ [][EnrolNext]_allvars

-----------------------------------------------------------------------------
(* Properties *)

Students(sec) == {p \in course_participant : p[2] = sec /\ person[p[1]].type = "Student"}

\* "exceed section limit size" (hw3_advanced.sql:170): no section has more
\* students than its limit.  It holds for clients that do not delete a student
\* who takes part in a section.  For the others it does not: delete_student
\* removes the Student row, the foreign key keeps the Person row and the
\* participant, and student_limit, which counts by student_view, gives the seat
\* away again.
SeatLimit == \A sec \in Sections: Cardinality(Students(sec)) <= Section[sec].enrollment_limit

\* "faculty can not teach more than 3 sections" (hw3_advanced.sql:177).
TeachingLimit ==
    \A u \in DOMAIN person, sec \in Sections:
        person[u].type = "Faculty" => Cardinality(Load(u, sec)) <= 3

\* How far overlapping sessions can overrun: each may have run its checks before
\* the others' rows went in and take one place too many, and no more.
Overrun == Cardinality(Sessions) - 1

\* However careful clients that delete nobody overlap, a section has at most
\* Overrun students above the limit student_limit checks.
SeatOverrun ==
    \A sec \in Sections: Cardinality(Students(sec)) <= Section[sec].enrollment_limit + Overrun

\* However clients overlap, a faculty member has at most Overrun sections above
\* the three faculty_limit allows.
TeachingOverrun ==
    \A u \in DOMAIN person, sec \in Sections:
        person[u].type = "Faculty" => Cardinality(Load(u, sec)) <= 3 + Overrun

\* The person takes part, earlier or later, in a section of each prerequisite.
TakesPrereqs(u, sec) ==
    \A r \in Prereqs: r[1] = Section[sec].course =>
        \E q \in course_participant: q[1] = u /\ Section[q[2]].course = r[2]

\* "Given a student uni and section call number, it checks if this student
\* satisfies the prereq for that course" (hw3_advanced.sql:63): a student in a
\* section takes part in sections of its prerequisites, however the sessions of
\* clients that delete nobody overlap.  Deletes are left out: a lecturer can be
\* deleted between the trigger and the row, and the row then goes in for the
\* student who was given the uni in between.
PrereqsEnrolled ==
    \A p \in course_participant: person[p[1]].type = "Student" => TakesPrereqs(p[1], p[2])

\* Every step is a step of the tables and procedures of PersonTables, or leaves
\* them alone: the trigger only withholds inserts, it adds no other effect.
RefinesPersonTables == Spec
=============================================================================
