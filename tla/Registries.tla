----------------------------- MODULE Registries -----------------------------
(***************************************************************************)
(* The two process-wide registries: module document schemas                *)
(* (module-registry/registry.ts, over one shared Ajv instance) and         *)
(* traversal adapters (traversal/v1.0/registry.ts), with the walks that    *)
(* look adapters up and the modules that register themselves on import.    *)
(* A schema is [id, content, valid, refs]: its $id or Undefined, its       *)
(* canonical content, whether Ajv accepts it, and every $id it refers to   *)
(* in the end.                                                             *)
(***************************************************************************)
EXTENDS Integers, Sequences

CONSTANTS Registrations,   \* what callers register: [key, schema, deps], key = <<module, version, kind>>
          Modules,         \* modules that register on import: [name -> sequence of registrations]
          Adapters,        \* traversal adapters: [key, impl]
          Walks,           \* walk options: [adapters (a sequence or Undefined), capabilities (a set or Undefined)]
          MaxCalls, Undefined

\* Lists of registrations and of dependencies are lists.
AllRegistrations == Registrations \cup UNION {{Modules[n][i] : i \in DOMAIN Modules[n]} : n \in DOMAIN Modules}

ASSUME RegistriesAssumption ==
  /\ MaxCalls \in Nat
  /\ \A n \in DOMAIN Modules : Modules[n] \in Seq(AllRegistrations)
  /\ \A r \in AllRegistrations : r.deps \in Seq({r.deps[i] : i \in DOMAIN r.deps})

VARIABLES registry,    \* module -> version -> kind -> the compiled schema and what its refs meant
          canonical,   \* $id -> content of the committed dependencies
          ajv,         \* $id -> content of every schema the shared Ajv instance holds
          imported,    \* the modules whose registered flag is set
          adapters,    \* key -> the globally registered adapter
          lookups,     \* the lookups created for walks, one per element of Walks tried
          calls,       \* the calls made
          failed       \* did the last call throw?

schemaVars == <<registry, canonical, ajv>>
registriesVars == <<registry, canonical, ajv, imported, adapters, lookups, calls, failed>>

Empty == << >>
Put(f, x, v) == [y \in DOMAIN f \cup {x} |-> IF y = x THEN v ELSE f[y]]
Without(f, S) == [x \in DOMAIN f \ S |-> f[x]]
Child(f, x) == IF x \in DOMAIN f THEN f[x] ELSE Empty

-----------------------------------------------------------------------------
(* registerModule.  A state of the schema registry is one record, so that  *)
(* several registrations can follow one another inside one import.         *)

Entry(state, key) == Child(Child(Child(state.registry, key[1]), key[2]), key[3])

Taken(state, key) ==
  key[1] \in DOMAIN state.registry /\ key[2] \in DOMAIN state.registry[key[1]]
    /\ key[3] \in DOMAIN state.registry[key[1]][key[2]]

\* Phase 1, pure: what an $id already means, to the registry or earlier in the list.
KnownBefore(state, deps, i) ==
  {deps[j].content : j \in {k \in 1..(i - 1) : deps[k].id = deps[i].id}}
    \cup (IF deps[i].id \in DOMAIN state.canonical THEN {state.canonical[deps[i].id]} ELSE {})

PreflightFails(state, deps) ==
  \E i \in DOMAIN deps : deps[i].id = Undefined \/ ~(KnownBefore(state, deps, i) \subseteq {deps[i].content})

NewDependencies(state, deps) == {i \in DOMAIN deps : KnownBefore(state, deps, i) = {}}

\* Ajv (external): a second schema under an $id is refused; a schema that is
\* not valid, or refers to nothing, is refused only after its $id was taken.
Occupied(held, schema) == schema.id # Undefined /\ schema.id \in DOMAIN held

\* The new dependencies are handed to Ajv in order, up to the first it refuses.
AddDependencies(held, deps, new) ==
  LET reached == {i \in new : \A j \in new : j < i => ~Occupied(held, deps[j]) /\ deps[j].valid}
      taken == {i \in reached : ~Occupied(held, deps[i])}
      kept == {i \in taken : deps[i].valid}
  IN  [ok |-> kept = new, added |-> {deps[i].id : i \in kept},
       ajv |-> [id \in DOMAIN held \cup {deps[i].id : i \in taken} |->
                  IF id \in DOMAIN held THEN held[id]
                  ELSE deps[CHOOSE i \in taken : deps[i].id = id].content]]

CompileDocument(h, schema) ==
  LET after == IF schema.id = Undefined \/ Occupied(h.ajv, schema) THEN h.ajv
               ELSE Put(h.ajv, schema.id, schema.content)
  IN  [ok |-> ~Occupied(h.ajv, schema) /\ schema.valid /\ schema.refs \subseteq DOMAIN after,
       added |-> h.added, ajv |-> after]

\* What is taken back when anything in phase 2 throws: what this call added.
RolledBack(held, deps) == held.added

Published(map, key, entry) ==
  Put(map, key[1], Put(Child(map, key[1]), key[2], Put(Child(Child(map, key[1]), key[2]), key[3], entry)))

Committed(state, registration, new, held) ==
  LET ids == {registration.deps[i].id : i \in new}
  IN  [registry |-> Published(state.registry, registration.key,
                      [schema |-> registration.schema, deps |-> registration.deps,
                       meant |-> [id \in registration.schema.refs |-> held.ajv[id]]]),
       canonical |-> [id \in DOMAIN state.canonical \cup ids |->
                        IF id \in ids THEN held.ajv[id] ELSE state.canonical[id]],
       ajv |-> held.ajv, failed |-> FALSE]

\* Nothing but Ajv itself can have changed when a registration throws.
Thrown(state, held) ==
  [registry |-> state.registry, canonical |-> state.canonical, ajv |-> held, failed |-> TRUE]

\* Mutant: the maps of a module and a version are published before the schema compiles.
Refused_Published(state, key, held, deps) ==
  [state EXCEPT !.failed = TRUE, !.ajv = Without(held.ajv, RolledBack(held, deps)),
                !.registry = Put(@, key[1], Put(Child(@, key[1]), key[2], Child(Child(@, key[1]), key[2])))]

Refused(state, key, held, deps) == Thrown(state, Without(held.ajv, RolledBack(held, deps)))

RegisterModule(state, registration) ==
  LET new == NewDependencies(state, registration.deps)
      held == AddDependencies(state.ajv, registration.deps, new)
      compiled == IF held.ok THEN CompileDocument(held, registration.schema) ELSE held
  IN  IF Taken(state, registration.key) \/ PreflightFails(state, registration.deps)
      THEN Thrown(state, state.ajv)
      ELSE IF compiled.ok THEN Committed(state, registration, new, compiled)
           ELSE Refused(state, registration.key, compiled, registration.deps)

SchemaState == [registry |-> registry, canonical |-> canonical, ajv |-> ajv, failed |-> FALSE]

Becomes(state) ==
  /\ registry' = state.registry /\ canonical' = state.canonical /\ ajv' = state.ajv
  /\ failed' = state.failed

\* Exact lookup: each miss is its own error, and nothing falls back.
LookupModule(key) ==
  CASE key[1] \notin DOMAIN registry -> "unsupported_module"
    [] key[1] \in DOMAIN registry /\ key[2] \notin DOMAIN registry[key[1]] -> "unsupported_module_version"
    [] key[1] \in DOMAIN registry /\ key[2] \in DOMAIN registry[key[1]]
         /\ key[3] \notin DOMAIN registry[key[1]][key[2]] -> "unsupported_module_kind"
    [] OTHER -> "found"

-----------------------------------------------------------------------------
(* Traversal adapters.                                                     *)

\* One call's adapters replace the global ones; two for one key are refused.
Ambiguous(list) == \E i, j \in DOMAIN list : list[i].key = list[j].key /\ list[i] # list[j]

AdaptersOf(options) ==
  IF options.adapters = Undefined THEN adapters
  ELSE [k \in {options.adapters[i].key : i \in DOMAIN options.adapters} |->
          options.adapters[CHOOSE i \in DOMAIN options.adapters : options.adapters[i].key = k]]

Allowed(key, options) == options.capabilities = Undefined \/ <<key[1], key[2]>> \in options.capabilities

LookupAdapter(options, key) ==
  IF Allowed(key, options) /\ key \in DOMAIN AdaptersOf(options) THEN AdaptersOf(options)[key] ELSE Undefined

\* Mutant: the adapter registered last wins.
AdapterConflicts_Never(adapter) == FALSE

AdapterConflicts(adapter) == adapter.key \in DOMAIN adapters /\ adapters[adapter.key] # adapter

-----------------------------------------------------------------------------
(* RegistriesInit and the calls.                                                     *)

RegistriesInit ==
  /\ registry = Empty /\ canonical = Empty /\ ajv = Empty
  /\ imported = {} /\ adapters = Empty /\ lookups = {}
  /\ calls = 0 /\ failed = FALSE

Called == calls < MaxCalls /\ calls' = calls + 1

Register(registration) ==
  /\ Called
  /\ Becomes(RegisterModule(SchemaState, registration))
  /\ UNCHANGED <<imported, adapters, lookups>>

FlagsAfter(state, name) == IF state.failed THEN imported ELSE imported \cup {name}

\* One registration after the other, up to the first that throws.
AndThen(state, registration) == IF state.failed THEN state ELSE RegisterModule(state, registration)

RegisterAll(state, list) ==
  LET after[i \in 0 .. Len(list)] == IF i = 0 THEN state ELSE AndThen(after[i - 1], list[i])
  IN  after[Len(list)]

\* The registration functions of Relations, Answer and Evidence: kind after
\* kind, the flag set only after the last one.
Import(name) ==
  /\ Called
  /\ IF name \in imported THEN failed' = FALSE /\ UNCHANGED <<schemaVars, imported>>
     ELSE LET state == RegisterAll(SchemaState, Modules[name])
          IN  Becomes(state) /\ imported' = FlagsAfter(state, name)
  /\ UNCHANGED <<adapters, lookups>>

RegisterAdapter(adapter) ==
  /\ Called
  /\ failed' = AdapterConflicts(adapter)
  /\ adapters' = IF AdapterConflicts(adapter) THEN adapters ELSE Put(adapters, adapter.key, adapter)
  /\ UNCHANGED <<schemaVars, imported, lookups>>

CreateLookup(options) ==
  /\ Called
  /\ failed' = (options.adapters # Undefined /\ Ambiguous(options.adapters))
  /\ lookups' = IF failed' THEN lookups ELSE lookups \cup {options}
  /\ UNCHANGED <<schemaVars, imported, adapters>>

RegistriesNext ==
  \/ \E registration \in Registrations : Register(registration)
  \/ \E name \in DOMAIN Modules : Import(name)
  \/ \E adapter \in Adapters : RegisterAdapter(adapter)
  \/ \E options \in Walks : CreateLookup(options)

RegistriesSpec == RegistriesInit /\ [][RegistriesNext]_registriesVars

-----------------------------------------------------------------------------
(* Properties.                                                             *)

Keys == {r.key : r \in AllRegistrations}
Registered == {k \in Keys : LookupModule(k) = "found"}
EntryOf(key) == Entry(SchemaState, key)

\* The committed dependencies and the shared Ajv instance never say different
\* things of one $id, and every flag stands for a module registered in full.
RegistriesTypeOK ==
  /\ DOMAIN canonical \subseteq DOMAIN ajv
  /\ \A id \in DOMAIN canonical : ajv[id] = canonical[id]
  /\ \A name \in imported : \A i \in DOMAIN Modules[name] : Modules[name][i].key \in Registered
  /\ \A key \in DOMAIN adapters : adapters[key].key = key
  /\ lookups \subseteq Walks /\ calls \in 0..MaxCalls /\ failed \in BOOLEAN

\* The error of a lookup tells the truth, also after registrations that failed
\* half way: "unsupported module" exactly when nothing of it is registered, and
\* "unsupported version" exactly when only other versions are.
LookupHonest ==
  \A key \in Keys :
    /\ LookupModule(key) = "unsupported_module" <=> \A other \in Registered : other[1] # key[1]
    /\ LookupModule(key) = "unsupported_module_version" <=>
         /\ \E other \in Registered : other[1] = key[1]
         /\ \A other \in Registered : other[1] = key[1] => other[2] # key[2]

\* What a registered document refers to is what it was compiled against and what
\* it was shipped with: no registration, failed or not, removes a schema from
\* under it, replaces one, or passes its own off under a shared $id.
EntriesResolve ==
  \A key \in Registered :
    /\ \A id \in EntryOf(key).schema.refs : id \in DOMAIN ajv /\ ajv[id] = EntryOf(key).meant[id]
    /\ \A i \in DOMAIN EntryOf(key).deps :
         LET dep == EntryOf(key).deps[i] IN dep.id \in DOMAIN ajv /\ ajv[dep.id] = dep.content

\* What the schema registry says of itself, and what it holds, survive any
\* registration that fails.
RegistryHonest == LookupHonest /\ EntriesResolve

\* Once a lookup has found an adapter it always finds that one: what a walk
\* does cannot depend on which module was imported last.
LookupsStable ==
  [][\A options \in lookups, key \in {a.key : a \in Adapters} :
       LookupAdapter(options, key) # Undefined =>
         LookupAdapter(options, key)' = LookupAdapter(options, key)]_registriesVars

(* Promised, and not kept; see "Where the code and its words disagree".   *)
\* A registration that throws leaves no trace in the registry, in the committed
\* dependencies or in the shared Ajv instance.
FailureLeavesNoTrace ==
  [][\A r \in Registrations : Register(r) /\ failed' => UNCHANGED schemaVars]_registriesVars
=============================================================================
