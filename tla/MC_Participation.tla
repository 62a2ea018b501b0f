-------------------------- MODULE MC_Participation --------------------------
(* Instances of Participation for TLC. *)
EXTENDS Participation, TLC

\* Person ('a','b') of hw3_test.sql has prefix AB, and LIKE 'AB%' also matches
\* the unis of people whose four initials begin with AB.
NestedPrefixes == [p \in Prefixes |-> IF p = "AB" THEN Prefixes ELSE {p}]

\* The prerequisites hw3_ddl.sql loads.
LoadedPrereqs == {<<"COMSW4111", "COMSE1006">>, <<"COMSW4111", "COMSW3270">>}

\* A section of each of the three courses with room for one student, and sections
\* full from the start (Full) that only faculty can join, in one semester.
MCSections ==
    [sec \in Sections |->
        CASE sec = "struct17" ->
               [course |-> "COMSW3270", year |-> 2017, semester |-> 1, enrollment_limit |-> 1]
          [] sec = "intro17" ->
               [course |-> "COMSE1006", year |-> 2017, semester |-> 1, enrollment_limit |-> 1]
          [] sec = "db17" ->
               [course |-> "COMSW4111", year |-> 2017, semester |-> 1, enrollment_limit |-> 1]
          [] OTHER ->
               [course |-> "COMSE1006", year |-> 2017, semester |-> 1, enrollment_limit |-> 0]]

\* After the semester of the sections: who takes part has completed the course.
Spring == {<<2018, 1>>}

\* During and after that semester, which the hw3 document calls the current one.
TwoDates == {<<2017, 9>>, <<2018, 1>>}

Full == Sections \ {"struct17", "intro17", "db17"}

EnrolSymmetry == Permutations(Sessions) \union Permutations(Full)
=============================================================================
