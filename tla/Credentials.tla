----------------------------- MODULE Credentials -----------------------------
(***************************************************************************)
(* The AI services of an office and the keys kept for them: the routes     *)
(* that change a service and its key (server.ts), the vault that keeps     *)
(* every key in one file (vault.ts) and the worker that resolves a service *)
(* to a provider it can call and remembers the set for as long as the      *)
(* office's answer is the same one (office-providers.ts).  A reference is  *)
(* the number of the request it was made by, and so is a pasted key.       *)
(***************************************************************************)
EXTENDS Naturals, FiniteSets, Sequences

CONSTANTS
  Services,   \* the services of the office, as numbers
  Made,       \* those the office begins with, which take no key yet
  Callers,    \* the requests that can be under way at once
  MaxCalls,   \* bound: requests made in all
  MaxFaults   \* bound: times the server stops or fails to hand a key over

VARIABLES
  services,  \* [Services -> the record in the store]
  disk,      \* [reference -> key], the vault's file
  memory,    \* [reference -> key], the file as the open vault has it
  calls,     \* [Callers -> what it is doing]
  called,    \* requests made so far
  worker,    \* the set of providers a worker is putting together
  providers, \* the set it remembers and the answer it was made from
  faults,
  mixed,     \* history: services two requests, or a stop, worked on at once
  owner,     \* history: [reference -> the service it was made for]
  missed     \* history: remembered services whose key the office has replaced or not handed over

credentialVars ==
  <<services, disk, memory, calls, called, worker, providers, faults, mixed, owner, missed>>

Refs == 1 .. MaxCalls
NoKey == 0
Keys == Refs \cup {NoKey}
\* What a provider is called with when it is not a kept key.
Named == MaxCalls + 1
Keyless == MaxCalls + 2

ServiceRecords ==
  [state : {"unmade", "kept", "gone"}, ref : Keys, named : BOOLEAN, enabled : BOOLEAN]

Done == [todo |-> << >>]
NoKeys == [s \in Services |-> NoKey]
Resting == [step |-> "resting", of |-> {}, keys |-> NoKeys, left |-> {}, missed |-> {}]

\* What the constants have to be: services are numbers, and so are the bounds.
CredentialConstants ==
  /\ Services \subseteq Nat \ {0} /\ Made \subseteq Services
  /\ {MaxCalls, MaxFaults} \subseteq Nat

KeysTypeOK ==
  /\ services \in [Services -> ServiceRecords]
  /\ disk \in [Refs -> Keys] /\ memory \in [Refs -> Keys]
  /\ called \in 0 .. MaxCalls /\ faults \in 0 .. MaxFaults
  /\ mixed \subseteq Services /\ missed \subseteq Services
  /\ \A s \in Services : services[s].named => services[s].ref = NoKey

KeysInit ==
  /\ services = [s \in Services |-> [state |-> IF s \in Made THEN "kept" ELSE "unmade",
                                     ref |-> NoKey, named |-> FALSE, enabled |-> TRUE]]
  /\ disk = [r \in Refs |-> NoKey] /\ memory = disk
  /\ calls = [r \in Callers |-> Done]
  /\ called = 0 /\ faults = 0
  /\ worker = Resting /\ providers = [of |-> {}, keys |-> NoKeys]
  /\ mixed = {} /\ missed = {} /\ owner = [r \in Refs |-> NoKey]

-------------------------------------------------------------------------------
\* The vault.

Serving(r) == calls[r].todo # << >>

\* The vault builds the next file from the copy in memory, saves it, and replaces
\* the copy only then.
PutSecret(ref, key) == [memory EXCEPT ![ref] = key]
DropSecret(ref) == [memory EXCEPT ![ref] = NoKey]

\* What it answers from that copy: whether it has a key, and which.
Has(ref) == ref # NoKey /\ memory[ref] # NoKey
Get(ref) == memory[ref]

-------------------------------------------------------------------------------
\* The routes.  `todo` is what is left of a request after an await: "save" the
\* vault's file, "keep" it in memory, "write" the service, "remove" it.

NoFile == << >>
AtTheVault(w) == w.file # NoFile \/ w.drop # NoKey

Work(s, todo, copy, file, drop) ==
  [of |-> s, todo |-> todo, copy |-> copy, file |-> file, drop |-> drop]

Serve(r, w) ==
  /\ ~Serving(r) /\ called < MaxCalls
  /\ called' = called + 1
  /\ calls' = [calls EXCEPT ![r] = w]
  /\ LET others == {q \in Callers \ {r} : Serving(q)}
         same == {q \in others : calls[q].of = w.of}
         beside == {q \in others : AtTheVault(w) /\ AtTheVault(calls[q])}
     IN mixed' = mixed \cup {calls[q].of : q \in same \cup beside}
                           \cup (IF same \cup beside = {} THEN {} ELSE {w.of})

\* POST services; a key is never taken here.
CreateService(s, named) ==
  /\ services[s].state = "unmade"
  /\ services' = [services EXCEPT ![s] = [@ EXCEPT !.state = "kept", !.named = named]]
  /\ UNCHANGED <<disk, memory, calls, called, worker, providers, faults, mixed, owner, missed>>

\* PATCH services/:id, which leaves the credential alone.
ChangeService(r, s) ==
  /\ services[s].state = "kept"
  /\ Serve(r, Work(s, <<"write">>, [services[s] EXCEPT !.enabled = ~@], NoFile, NoKey))
  /\ UNCHANGED <<services, disk, memory, worker, providers, faults, owner, missed>>

\* POST services/:id/discover: the service itself is asked for its models, and the
\* record read before it answered is written back with them.
DiscoverModels(r, s) ==
  /\ services[s].state = "kept"
  /\ Serve(r, Work(s, <<"found">>, services[s], NoFile, NoKey))
  /\ UNCHANGED <<services, disk, memory, worker, providers, faults, owner, missed>>

\* A service that would not say what it offers changes nothing.
DiscoverFails(r) ==
  /\ calls[r].todo = <<"found">>
  /\ calls' = [calls EXCEPT ![r] = Done]
  /\ UNCHANGED <<services, disk, memory, called, worker, providers, faults, mixed, owner, missed>>

\* Mutant: every key that is pasted is kept beside the one before it.
RefForAnother(s) == called + 1

\* A key is replaced in place where there is one already.
RefFor(s) == IF services[s].ref = NoKey THEN called + 1 ELSE services[s].ref

\* Mutant: the name of the variable stays beside the key.
PasteKeyStillNamed(r, s) ==
  /\ services[s].state = "kept"
  /\ services[s].ref # NoKey => Has(services[s].ref)
  /\ Serve(r, Work(s, <<"save", "keep", "write">>, [services[s] EXCEPT !.ref = RefFor(s)],
                   PutSecret(RefFor(s), called + 1), NoKey))
  /\ owner' = [owner EXCEPT ![RefFor(s)] = s]
  /\ UNCHANGED <<services, disk, memory, worker, providers, faults, missed>>

\* PUT credential with a key; a reference the vault has nothing under is refused.
PasteKey(r, s) ==
  /\ services[s].state = "kept"
  /\ services[s].ref # NoKey => Has(services[s].ref)
  /\ Serve(r, Work(s, <<"save", "keep", "write">>,
                   [services[s] EXCEPT !.ref = RefFor(s), !.named = FALSE],
                   PutSecret(RefFor(s), called + 1), NoKey))
  /\ owner' = [owner EXCEPT ![RefFor(s)] = s]
  /\ UNCHANGED <<services, disk, memory, worker, providers, faults, missed>>

\* Mutant: the key is let go of before the service stops naming it.
NamingLater(s, old, copy) ==
  IF ~Has(old) THEN Work(s, <<"write">>, copy, NoFile, NoKey)
  ELSE Work(s, <<"save", "keep", "write">>, copy, DropSecret(old), NoKey)

\* Written first; the key that was kept is let go of after.
Naming(s, old, copy) == Work(s, <<"write">>, copy, NoFile, old)

\* PUT credential naming a variable.
NameVariable(r, s) ==
  /\ services[s].state = "kept"
  /\ LET old == services[s].ref
         copy == [services[s] EXCEPT !.ref = NoKey, !.named = TRUE]
     IN Serve(r, IF old = NoKey THEN Work(s, <<"write">>, copy, NoFile, NoKey)
                               ELSE Naming(s, old, copy))
  /\ UNCHANGED <<services, disk, memory, worker, providers, faults, owner, missed>>

\* The key goes first, where the vault has one.
WithoutKey(s, last, copy) ==
  LET old == services[s].ref
  IN IF Has(old) THEN Work(s, <<"save", "keep", last>>, copy, DropSecret(old), NoKey)
                 ELSE Work(s, <<last>>, copy, NoFile, NoKey)

\* DELETE credential and DELETE services/:id.
ForgetKey(r, s) ==
  /\ services[s].state = "kept"
  /\ \E last \in {"write", "remove"} :
       Serve(r, WithoutKey(s, last, [services[s] EXCEPT !.ref = NoKey, !.named = FALSE]))
  /\ UNCHANGED <<services, disk, memory, worker, providers, faults, owner, missed>>

-------------------------------------------------------------------------------

AtStep(r, step) == Serving(r) /\ Head(calls[r].todo) = step

Goes(r) ==
  LET w == calls[r]
  IN [calls EXCEPT ![r] = IF Len(w.todo) = 1 THEN Done ELSE [w EXCEPT !.todo = Tail(w.todo)]]

SaveFile(r) ==
  /\ AtStep(r, "save")
  /\ disk' = calls[r].file
  /\ calls' = Goes(r)
  /\ UNCHANGED <<services, memory, called, worker, providers, faults, mixed, owner, missed>>

\* The file is the one the vault answers from.  Services whose reference now opens
\* another key look the same to a worker as before.
KeepFile(r) ==
  /\ AtStep(r, "keep")
  /\ memory' = calls[r].file
  /\ LET inPlace == {s \in Services : /\ Has(services[s].ref)
                                      /\ memory'[services[s].ref] # memory[services[s].ref]}
     IN missed' = missed \cup inPlace /\ worker' = [worker EXCEPT !.missed = @ \cup inPlace]
  /\ calls' = Goes(r)
  /\ UNCHANGED <<services, disk, called, providers, faults, mixed, owner>>

\* saveService, and what is let go of once the service is written.
WriteService(r) ==
  /\ AtStep(r, "write") \/ AtStep(r, "found")
  /\ LET w == calls[r]
     IN /\ services' = [services EXCEPT ![w.of] = w.copy]
        /\ calls' = IF Has(w.drop)
                     THEN [calls EXCEPT ![r] =
                            [w EXCEPT !.todo = <<"save", "keep">>, !.file = DropSecret(w.drop)]]
                     ELSE Goes(r)
  /\ UNCHANGED <<disk, memory, called, worker, providers, faults, mixed, owner, missed>>

RemoveService(r) ==
  /\ AtStep(r, "remove")
  /\ services' = [services EXCEPT ![calls[r].of] = [calls[r].copy EXCEPT !.state = "gone"]]
  /\ calls' = Goes(r)
  /\ UNCHANGED <<disk, memory, called, worker, providers, faults, mixed, owner, missed>>

\* The server stops: the vault is opened again from its file.
Reopen ==
  /\ faults < MaxFaults
  /\ faults' = faults + 1
  /\ memory' = disk
  /\ mixed' = mixed \cup {calls[r].of : r \in {q \in Callers : Serving(q)}}
  /\ calls' = [r \in Callers |-> Done]
  /\ UNCHANGED <<services, disk, called, worker, providers, owner, missed>>

-------------------------------------------------------------------------------
\* The worker.

KeptIn(listed) == {s \in Services : listed[s].state = "kept"}

\* Mutant: the answer is told apart without the references.
SignatureWithoutRefs(listed) ==
  {<<s, listed[s].named, listed[s].enabled>> : s \in KeptIn(listed)}

\* signatureOf.
SignatureOf(listed) ==
  {<<s, listed[s].named, listed[s].ref, listed[s].enabled>> :
     s \in KeptIn(listed)}

\* Once no key is left to fetch the set replaces the one that was remembered.
Gathers(w) ==
  IF w.left = {} THEN /\ providers' = [of |-> w.of, keys |-> w.keys]
                      /\ missed' = w.missed
                      /\ worker' = Resting
                 ELSE worker' = w /\ UNCHANGED <<providers, missed>>

\* The office is asked each time; the set is put together again when it answers
\* something else.  A key is taken from this process's own variables or fetched.
ListServices ==
  /\ worker.step = "resting" /\ providers.of # SignatureOf(services)
  /\ LET on == {s \in KeptIn(services) : services[s].enabled}
     IN Gathers([step |-> "fetching", of |-> SignatureOf(services), missed |-> {},
                 left |-> {s \in on : services[s].ref # NoKey},
                 keys |-> [s \in Services |-> IF s \notin on \/ services[s].ref # NoKey THEN NoKey
                                              ELSE IF services[s].named THEN Named ELSE Keyless]])
  /\ UNCHANGED <<services, disk, memory, calls, called, faults, mixed, owner>>

\* GET credential, as of now.
Credential(s) ==
  CASE services[s].state # "kept" -> NoKey
    [] services[s].named -> Named
    [] services[s].ref # NoKey -> Get(services[s].ref)
    [] OTHER -> NoKey

\* A key the office would not hand over is remembered as one it does not have.
FetchKey ==
  /\ worker.step = "fetching"
  /\ LET s == CHOOSE one \in worker.left : \A other \in worker.left : one <= other
         w == [worker EXCEPT !.left = @ \ {s}]
     IN \/ /\ Gathers([w EXCEPT !.keys = [@ EXCEPT ![s] = Credential(s)], !.missed = @ \ {s}])
           /\ UNCHANGED faults
        \/ /\ faults < MaxFaults /\ faults' = faults + 1
           /\ Gathers([w EXCEPT !.missed = @ \cup {s}])
  /\ UNCHANGED <<services, disk, memory, calls, called, mixed, owner>>

KeysNext ==
  \/ Reopen
  \/ ListServices
  \/ FetchKey
  \/ \E s \in Services, named \in BOOLEAN : CreateService(s, named)
  \/ \E r \in Callers :
       \/ \E s \in Services : \/ ChangeService(r, s)
                             \/ DiscoverModels(r, s)
                             \/ PasteKey(r, s)
                             \/ NameVariable(r, s)
                             \/ ForgetKey(r, s)
       \/ DiscoverFails(r)
       \/ SaveFile(r)
       \/ KeepFile(r)
       \/ WriteService(r)
       \/ RemoveService(r)

KeysSpec == KeysInit /\ [][KeysNext]_credentialVars

-------------------------------------------------------------------------------

WorkedOn(s) == \E r \in Callers : Serving(r) /\ calls[r].of = s

\* A service that says it has a key has one the vault opens, also halfway through
\* naming a variable instead; the two routes that drop the key first excepted.
HeldKeysOpen ==
  \A s \in Services \ mixed :
    \/ services[s].ref = NoKey \/ Has(services[s].ref)
    \/ \E r \in Callers : Serving(r) /\ calls[r].of = s /\ ~calls[r].copy.named
                                    /\ calls[r].copy.ref = NoKey

\* Nothing is kept that no service names: not after a key was replaced or
\* forgotten, a variable named in its place, or the service deleted.
NoStrayKeys ==
  \A ref \in Refs :
    memory[ref] # NoKey /\ owner[ref] \notin mixed /\ ~WorkedOn(owner[ref]) =>
      services[owner[ref]].state = "kept" /\ services[owner[ref]].ref = ref

\* A worker that goes on with the set it remembers calls every service with what
\* the office has for it now, but for a key replaced in place or not handed over.
FollowsTheOffice ==
  providers.of = SignatureOf(services) =>
    \A s \in KeptIn(services) \ (mixed \cup missed) :
      services[s].enabled /\ ~WorkedOn(s) =>
        providers.keys[s] = IF services[s].ref = NoKey /\ ~services[s].named THEN Keyless
                                                                       ELSE Credential(s)

\* A key that a service says it has opens, the vault keeps none that nobody names,
\* and a worker calls every service with what the office has for it (server.ts,
\* vault.ts, office-providers.ts).
KeysFit == KeysTypeOK /\ HeldKeysOpen /\ NoStrayKeys /\ FollowsTheOffice
===============================================================================
