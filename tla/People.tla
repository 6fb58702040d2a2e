-------------------------------- MODULE People --------------------------------
(***************************************************************************)
(* One employee and the changes proposed to them, as the server's routes   *)
(* change them: an edit, the switch of their status, the study of a voice  *)
(* they stand in for, a correction of it, a look back over their work and  *)
(* a person's decision on what came of it (server.ts, employee.ts,         *)
(* proposal.ts).  Every route reads a record, waits for something and      *)
(* writes the whole record back, so requests work on copies.               *)
(***************************************************************************)
EXTENDS Naturals, FiniteSets, Sequences

CONSTANTS
  Requests,     \* the requests that can be under way at once
  Words,        \* standing instructions somebody can be given
  NoWords,      \* those of somebody who was told nothing
  NoVoice,      \* the understudy of somebody who stands in for nobody
  MaxAsked,     \* bound: requests made in all
  MaxProposals, \* bound: proposals made in all
  MaxHeard,     \* MAX_CORRECTIONS
  MaxStops      \* bound: times the server stops

VARIABLES
  employee,  \* the record in the store
  proposals, \* the proposals in the store, in the order they were made
  asked,     \* [Requests -> what it is doing, with the copies it holds]
  count,     \* requests made so far
  halts,     \* times the server stopped
  held,      \* history: the proposals whose change was written onto the employee
  contested  \* history: the proposals two decisions were under way on at once

peopleVars == <<employee, proposals, asked, count, halts, held, contested>>

Voice(card, heard) == [card |-> card, heard |-> heard]
Voices == {NoVoice} \cup {Voice(c, h) : c \in BOOLEAN, h \in 0 .. MaxHeard}
Texts == Words \cup {NoWords}

EmployeeRecords ==
  [status : {"active", "paused", "terminated"}, words : Texts, voice : Voices,
   improving : BOOLEAN, budget : BOOLEAN]

Proposal(before, after) == [status |-> "waiting", before |-> before, after |-> after]

Idle == [step |-> "idle"]

\* What the constants have to be: the bounds are numbers, and standing in for
\* nobody is not a voice.
PeopleConstants ==
  /\ {MaxAsked, MaxHeard, MaxStops} \subseteq Nat
  /\ NoVoice \notin [card : BOOLEAN, heard : 0 .. MaxHeard]

PeopleTypeOK ==
  /\ employee \in EmployeeRecords
  /\ \A p \in DOMAIN proposals :
       proposals[p] \in [status : {"waiting", "accepted", "declined", "reverted"},
                         before : Texts, after : Texts]
  /\ held \cup contested \subseteq DOMAIN proposals
  /\ count \in 0 .. MaxAsked /\ halts \in 0 .. MaxStops

\* Hired with a voice to stand in for, nothing studied yet, and switched on.
PeopleInit ==
  /\ employee = [status |-> "active", words |-> NoWords, voice |-> Voice(FALSE, 0),
                 improving |-> TRUE, budget |-> FALSE]
  /\ proposals = << >>
  /\ asked = [r \in Requests |-> Idle]
  /\ count = 0 /\ halts = 0 /\ held = {} /\ contested = {}

-------------------------------------------------------------------------------
\* What the routes make of the copy they read.

\* updateEmployee: a budget is looked at and left out of what is written; a voice
\* keeps the corrections it has, and the card is the one that is said.
Changes ==
  [field : {"words"}, to : Texts] \cup [field : {"voice"}, as : {"none", "card", "plain"}]
    \cup [field : {"improving", "budget"}, to : BOOLEAN]

WithVoice(old, to) ==
  IF to = "none" THEN NoVoice ELSE Voice(to = "card", IF old = NoVoice THEN 0 ELSE old.heard)

UpdateEmployee(e, change) ==
  CASE change.field = "words"     -> [e EXCEPT !.words = change.to]
    [] change.field = "voice"     -> [e EXCEPT !.voice = WithVoice(@, change.as)]
    [] change.field = "improving" -> [e EXCEPT !.improving = change.to]
    [] change.field = "budget"    -> e

\* Mutant: somebody who was let go can be put back.
MayMoveFreely(e, to) == e.status # to

\* transitionEmployee.
MayMove(e, to) == e.status # "terminated" /\ e.status # to

Studied(e) == [e EXCEPT !.voice.card = TRUE]

Heard(n) == IF n = MaxHeard THEN n ELSE n + 1
RecordCorrection(e) == [e EXCEPT !.voice.heard = Heard(@)]

-------------------------------------------------------------------------------

Ask(r, what) ==
  /\ asked[r].step = "idle" /\ count < MaxAsked
  /\ count' = count + 1
  /\ asked' = [asked EXCEPT ![r] = what]

Ends(r) == asked' = [asked EXCEPT ![r] = Idle]

\* A route that will write the employee: the copy it read, and what it makes of it.
Writing(read, write, on) == [step |-> "write", read |-> read, write |-> write, on |-> on]

PatchEmployee(r) ==
  /\ \E change \in Changes :
       Ask(r, Writing(employee, UpdateEmployee(employee, change), change))
  /\ UNCHANGED <<employee, proposals, halts, held, contested>>

PutStatus(r) ==
  /\ \E to \in {"active", "paused", "terminated"} :
       /\ MayMove(employee, to)
       /\ Ask(r, Writing(employee, [employee EXCEPT !.status = to],
                           [field |-> "status", as |-> to]))
  /\ UNCHANGED <<employee, proposals, halts, held, contested>>

\* Mutant: nobody asks whether there still is a voice.
StudyBlindly(r) ==
  /\ Ask(r, Writing(employee, [employee EXCEPT !.voice = Voice(TRUE, 0)],
                      [field |-> "card", to |-> TRUE]))
  /\ UNCHANGED <<employee, proposals, halts, held, contested>>

\* The samples are read and a model is asked before anything is written.
Study(r) ==
  /\ employee.voice # NoVoice
  /\ Ask(r, Writing(employee, Studied(employee), [field |-> "card", to |-> TRUE]))
  /\ UNCHANGED <<employee, proposals, halts, held, contested>>

Correct(r) ==
  /\ employee.voice # NoVoice
  /\ Ask(r, Writing(employee, RecordCorrection(employee), [field |-> "heard", to |-> TRUE]))
  /\ UNCHANGED <<employee, proposals, halts, held, contested>>

\* The model that is asked may refuse, and a look back may find nothing.
GiveUp(r) ==
  /\ \/ asked[r].step = "write" /\ asked[r].on.field = "card"
     \/ asked[r].step = "looking"
  /\ Ends(r)
  /\ UNCHANGED <<employee, proposals, count, halts, held, contested>>

WriteEmployee(r) ==
  /\ asked[r].step = "write"
  /\ employee' = asked[r].write
  /\ Ends(r)
  /\ UNCHANGED <<proposals, count, halts, held, contested>>

-------------------------------------------------------------------------------
\* Looking back, by the server's own model or by a worker's.

LookBack(r) ==
  /\ employee.improving
  /\ \E by \in {"server", "worker"} :
       Ask(r, [step |-> "looking", words |-> employee.words, by |-> by])
  /\ UNCHANGED <<employee, proposals, halts, held, contested>>

\* A worker's proposal is posted, and the route asks again whether it may be made.
Propose(r) ==
  /\ asked[r].step = "looking" /\ Cardinality(DOMAIN proposals) < MaxProposals
  /\ \/ /\ asked[r].by = "server" \/ employee.improving
        /\ \E after \in Words :
             proposals' = Append(proposals, Proposal(asked[r].words, after))
     \/ /\ asked[r].by = "worker" /\ ~employee.improving
        /\ UNCHANGED proposals
  /\ Ends(r)
  /\ UNCHANGED <<employee, count, halts, held, contested>>

-------------------------------------------------------------------------------
\* A person's answer to a proposal.

Deciding(r, p) == asked[r].step \in {"read", "both", "put"} /\ asked[r].of = p

ReadProposal(r) ==
  /\ \E p \in DOMAIN proposals, what \in {"decline", "accept", "revert"} :
       /\ Ask(r, [step |-> "read", of |-> p, what |-> what, copy |-> proposals[p]])
       /\ contested' = IF \E q \in Requests \ {r} : Deciding(q, p)
                       THEN contested \cup {p} ELSE contested
  /\ UNCHANGED <<employee, proposals, halts, held>>

\* Mutant: an edit made since is written over.
MayDecideAnyway(what, copy, e) ==
  IF what = "revert" THEN copy.status = "accepted" ELSE copy.status = "waiting"

\* Mutant: an answer to a proposal that has one.
MayDecideAgain(what, copy, e) ==
  IF what = "revert" THEN copy.status = "accepted" /\ e.words = copy.after ELSE TRUE

\* decided and revertProposal: putting back is refused over words edited since.
MayDecide(what, copy, e) ==
  IF what = "revert" THEN copy.status = "accepted" /\ e.words = copy.after
                     ELSE copy.status = "waiting"

StatusOf(what) ==
  CASE what = "decline" -> "declined" [] what = "accept" -> "accepted"
    [] what = "revert" -> "reverted"

\* The employee is read, and the answer judged against both copies.
ReadEmployee(r) ==
  /\ asked[r].step = "read"
  /\ LET a == asked[r]
         to == IF a.what = "accept" THEN a.copy.after ELSE a.copy.before
     IN IF ~MayDecide(a.what, a.copy, employee) THEN Ends(r)
        ELSE asked' = [asked EXCEPT ![r] =
               [step |-> IF a.what = "decline" THEN "put" ELSE "both", of |-> a.of,
                what |-> a.what, read |-> employee, write |-> [employee EXCEPT !.words = to],
                copy |-> [a.copy EXCEPT !.status = StatusOf(a.what)]]]
  /\ UNCHANGED <<employee, proposals, count, halts, held, contested>>

\* Mutant: the proposal is marked before the person is changed.
ChangeThemLater(r) ==
  /\ asked[r].step = "both"
  /\ proposals' = [proposals EXCEPT ![asked[r].of] = asked[r].copy]
  /\ asked' = [asked EXCEPT ![r].step = "put"]
  /\ UNCHANGED <<employee, count, halts, held, contested>>

\* The person first.
ChangeThem(r) ==
  /\ asked[r].step = "both"
  /\ employee' = asked[r].write
  /\ held' = held \cup {asked[r].of}
  /\ asked' = [asked EXCEPT ![r].step = "put"]
  /\ UNCHANGED <<proposals, count, halts, contested>>

PutProposal(r) ==
  /\ asked[r].step = "put"
  /\ proposals' = [proposals EXCEPT ![asked[r].of] = asked[r].copy]
  /\ Ends(r)
  /\ UNCHANGED <<employee, count, halts, held, contested>>

\* The server stops: what it was doing is forgotten, what it wrote is there.
Halt ==
  /\ halts < MaxStops
  /\ halts' = halts + 1
  /\ asked' = [r \in Requests |-> Idle]
  /\ UNCHANGED <<employee, proposals, count, held, contested>>

PeopleNext ==
  \/ Halt
  \/ \E r \in Requests :
       \/ PatchEmployee(r)
       \/ PutStatus(r)
       \/ Study(r)
       \/ Correct(r)
       \/ GiveUp(r)
       \/ WriteEmployee(r)
       \/ LookBack(r)
       \/ Propose(r)
       \/ ReadProposal(r)
       \/ ReadEmployee(r)
       \/ ChangeThem(r)
       \/ PutProposal(r)

PeopleSpec == PeopleInit /\ [][PeopleNext]_peopleVars

-------------------------------------------------------------------------------

\* A write of a copy somebody else's write has made old since it was read.
Stale(r) == asked[r].step \in {"write", "both"} /\ asked[r].read # employee
WritesBack(r) == asked[r].step \in {"write", "both"} /\ employee' = asked[r].write

\* Letting somebody go is final, whatever routes are used in whatever order; only
\* a route that read them before they were let go can bring them back.
TerminationIsFinal ==
  [][ employee.status = "terminated" /\ employee'.status # "terminated" =>
        \E r \in Requests : WritesBack(r) /\ Stale(r) /\ asked[r].read.status # "terminated" ]_peopleVars

\* A proposal that counts as accepted was written onto the person, also when the
\* server stops between the two writes.
AcceptedTookHold ==
  \A p \in DOMAIN proposals : proposals[p].status \in {"accepted", "reverted"} => p \in held

\* A proposal is answered once and an accepted one put back once, unless two
\* people answered it at the same moment.
DecidedOnce ==
  [][ \A p \in DOMAIN proposals :
        proposals'[p].status # proposals[p].status =>
          \/ <<proposals[p].status, proposals'[p].status>> \in
               {<<"waiting", "accepted">>, <<"waiting", "declined">>, <<"accepted", "reverted">>}
          \/ p \in contested ]_peopleVars

\* Putting a proposal back overwrites nothing but what the proposal wrote, unless
\* an edit lands between the reading and the writing.
RevertsItsOwn ==
  [][ \A r \in Requests :
        asked[r].step = "both" /\ asked[r].what = "revert" /\ ChangeThem(r) =>
          employee.words = asked[r].copy.after \/ Stale(r) ]_peopleVars

\* Somebody who stopped standing in for another person does so again only when a
\* person says so, or when a route writes back a copy it read before they stopped.
VoiceIsGiven ==
  [][ employee.voice = NoVoice /\ employee'.voice # NoVoice =>
        \E r \in Requests :
          /\ WritesBack(r)
          /\ \/ asked[r].step = "write" /\ asked[r].on.field = "voice"
             \/ Stale(r) /\ asked[r].read.voice # NoVoice ]_peopleVars

\* What was decided about a person stays decided, whatever crosses it: a proposal
\* that counts as accepted was written, it is answered once and put back without
\* overwriting anybody else's word, letting somebody go is final, and nobody
\* stands in for another unless somebody said so (proposal.ts, employee.ts,
\* server.ts).
WordIsKept ==
  /\ [](PeopleTypeOK /\ AcceptedTookHold)
  /\ DecidedOnce /\ RevertsItsOwn /\ TerminationIsFinal /\ VoiceIsGiven
===============================================================================
