------------------------------ MODULE MCRecords ------------------------------
(***************************************************************************)
(* The records of an office under the routes and the transactions that     *)
(* change them, model-checked in one run: each behaviour is one of the     *)
(* components at work, `part`, and leaves the others where they began.     *)
(***************************************************************************)
EXTENDS Tables, People, Organisation, Credentials, TLC

CONSTANTS w1, w2, c1

VARIABLE part

Symmetry == Permutations(Requests)

ASSUME TableConstants /\ PeopleConstants /\ OrganisationConstants /\ CredentialConstants

recordVars == <<part, vars, peopleVars, credentialVars, organisationVars>>

\* Which of the two stores it is matters to the transactions alone.
RecordsInit ==
  /\ part \in {"tables", "people", "credentials", "organisation"}
  /\ \/ part = "tables"
     \/ part # "tables" /\ adapter = "memory"
  /\ Init /\ PeopleInit /\ KeysInit /\ OfficeInit

RecordsNext ==
  /\ UNCHANGED part
  /\ \/ part = "tables" /\ Next /\ UNCHANGED <<peopleVars, credentialVars, organisationVars>>
     \/ part = "people" /\ PeopleNext /\ UNCHANGED <<vars, credentialVars, organisationVars>>
     \/ part = "credentials" /\ KeysNext /\ UNCHANGED <<vars, peopleVars, organisationVars>>
     \/ part = "organisation" /\ OfficeNext /\ UNCHANGED <<vars, peopleVars, credentialVars>>

RecordsSpec == RecordsInit /\ [][RecordsNext]_recordVars

===============================================================================
