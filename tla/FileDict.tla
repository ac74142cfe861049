------------------------------ MODULE FileDict ------------------------------
(***************************************************************************)
(* datas/filedict: dictionaries that live in memory and are written to     *)
(* their file as a whole.  Every operation looks at `closed`, takes the    *)
(* mutex and looks again (lockOrClosed); the actions here begin with the   *)
(* second look.  SyncWrite keeps the mutex from its DELETE to its REPLACE, *)
(* and the process may end between the two.                                *)
(***************************************************************************)
EXTENDS Naturals

CONSTANTS Dicts, Keys,
          Accepted,     \* the keys `validate` accepts
          NoValue,      \* no entry
          Nobody        \* nobody holds the mutex

VARIABLES data, file, mutex, closed

dictVars == <<data, file, mutex, closed>>

Free(d) == mutex[d] = Nobody

\* Nothing in it.
Blank == [k \in Keys |-> NoValue]

\* Set, and Drop with NoValue
Set(d, key, value) ==
  /\ Free(d) /\ ~ closed[d]
  /\ data' = [data EXCEPT ![d][key] = value]
  /\ UNCHANGED <<file, mutex, closed>>

\* Mutant of DeleteAll: the rows are replaced, those of dropped keys stay.
DeleteNothing(d, h) ==
  /\ Free(d) /\ ~ closed[d]
  /\ mutex' = [mutex EXCEPT ![d] = IF data[d] = Blank THEN Nobody ELSE h]
  /\ UNCHANGED <<data, file, closed>>

\* SyncWrite up to its DELETE, all there is to do for an empty dictionary.
DeleteAll(d, h) ==
  /\ Free(d) /\ ~ closed[d]
  /\ file' = [file EXCEPT ![d] = Blank]
  /\ mutex' = [mutex EXCEPT ![d] = IF data[d] = Blank THEN Nobody ELSE h]
  /\ UNCHANGED <<data, closed>>

Replace(d, h) ==
  /\ mutex[d] = h
  /\ file' = [file EXCEPT ![d] = [k \in Keys |->
                IF data[d][k] = NoValue THEN file[d][k] ELSE data[d][k]]]
  /\ mutex' = [mutex EXCEPT ![d] = Nobody]
  /\ UNCHANGED <<data, closed>>

\* Either Exec returns an error.
DeleteFails(d) == Free(d) /\ ~ closed[d] /\ UNCHANGED dictVars

ReplaceFails(d, h) ==
  /\ mutex[d] = h
  /\ mutex' = [mutex EXCEPT ![d] = Nobody]
  /\ UNCHANGED <<data, file, closed>>

\* Mutant of Close: without the mutex.
CloseAtOnce(d) ==
  /\ ~ closed[d]
  /\ closed' = [closed EXCEPT ![d] = TRUE]
  /\ UNCHANGED <<data, file, mutex>>

Close(d) ==
  /\ Free(d) /\ ~ closed[d]
  /\ closed' = [closed EXCEPT ![d] = TRUE]
  /\ UNCHANGED <<data, file, mutex>>

\* New at the next start: SyncRead takes what the file holds.
New ==
  /\ data' = file
  /\ mutex' = [d \in Dicts |-> Nobody]
  /\ closed' = [d \in Dicts |-> FALSE]
  /\ UNCHANGED file

\* New returns an error for a dictionary with a key it does not accept.
Readable(d) == \A k \in Keys \ Accepted : file[d][k] = NoValue
=============================================================================
