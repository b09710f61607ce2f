------------------------------ MODULE Distribution ------------------------------
(***************************************************************************)
(* How a distribution comes to be and starts. cmd/builder reads a manifest *)
(* and writes components.go and main.go, one after the other in an order   *)
(* that a Go map picks; it may fail or be stopped after any step. The Go   *)
(* tool chain compiles what lies on disk. The program then loads its       *)
(* configuration, registers the factories of the compiled components and   *)
(* builds the instances that the pipelines refer to, each from its own     *)
(* settings.                                                               *)
(*                                                                         *)
(* Service takes over where this module ends: it wires the instances into  *)
(* pipelines and runs them.                                                *)
(***************************************************************************)
EXTENDS Components, Lists

CONSTANTS
  Manifests,       (* [legible, module, name, version, parts]: parts gives  *)
                   (* the entries of each section. An entry is [path, base, *)
                   (* suffix]: the import path, its last element as         *)
                   (* <<letters, marks>>, and what follows the path.        *)
  Catalogue,       (* The packages that can be imported, by path, and the   *)
                   (* factory each one exports.                             *)
  Modules,         (* The modules that resolve.                             *)
  Breaking,        (* Texts that break a Go string literal.                 *)
  LinkVersions,    (* Versions that a release build sets at link time.      *)
  Configs,         (* [legible, sections, refs]: of each section the        *)
                   (* settings by spelled id, and the references of the     *)
                   (* pipelines, <<role, spelling>>, in the order in which  *)
                   (* Build gets to them.                                   *)
  Nothing,         (* No manifest, file, binary or configuration.           *)
  Torn,            (* A file of which only a part was written.              *)
  MaxRuns          (* Bound: how often the builder runs.                    *)

VARIABLES
  disk,      (* What components.go and main.go hold.                        *)
  builder,   (* [manifest, todo]: the manifest of the run in progress and   *)
             (* the files it has yet to write.                              *)
  generated, (* The manifest of the last run that came to write, if it      *)
             (* exited 0.                                                   *)
  runs,      (* How often the builder ran.                                  *)
  binary,    (* [components, main, version, of]: the two files compiled,    *)
             (* the version that the linker set, and of, what generated was *)
             (* when they were compiled.                                    *)
  process    (* [phase, binary, config, factories, info, todo, instances]:  *)
             (* todo holds the references that Build has yet to get to.     *)

buildVars == <<disk, builder, generated, runs>>
vars == <<disk, builder, generated, runs, binary, process>>

Sections == {"acceptors", "processors", "dispatchers", "connectors"}
Files == {"components.go", "main.go"}

(* The sections of a manifest and the references of a configuration are    *)
(* lists; a reference is to a component of a section.                      *)
ASSUME InputAssumption ==
  /\ Nothing \notin Manifests \cup Configs
  /\ \A m \in Manifests : \A s \in Sections : IsList(m.parts[s])
  /\ \A c \in Configs : IsList(c.refs) /\ \A i \in DOMAIN c.refs : c.refs[i][1] \in Sections
  /\ MaxRuns \in Nat

Idle == [manifest |-> Nothing, todo |-> {}]
Down == [phase |-> "down", binary |-> Nothing, config |-> Nothing,
         factories |-> <<>>, info |-> <<>>, todo |-> <<>>, instances |-> <<>>]

Init ==
  /\ disk = [f \in Files |-> Nothing]
  /\ builder = Idle
  /\ generated = Nothing
  /\ runs = 0
  /\ binary = Nothing
  /\ process = Down

(***************************************************************************)
(* The builder.                                                            *)
(***************************************************************************)

(* An alias is the last element of the import path without '-' and '.'.    *)
sanitizeAlias(base) == base[1]

(* A suffix "@version" or " version" is cut off.                           *)
toTmpl(entries) ==
  [i \in DOMAIN entries |-> [alias |-> sanitizeAlias(entries[i].base), import |-> entries[i].path]]

orDefault(value, fallback) == IF value = "" THEN fallback ELSE value

TmplData(m) ==
  [module |-> m.module,
   version |-> orDefault(m.version, "dev"),
   command |-> orDefault(m.name, "querier"),
   parts |-> [s \in Sections |-> toTmpl(m.parts[s])]]

(* A manifest that cannot be read or decoded, or names no module, ends the *)
(* run, and so does a directory that cannot be made.                       *)
Begins ==
  /\ builder = Idle /\ runs < MaxRuns
  /\ runs' = runs + 1
  /\ UNCHANGED <<disk, binary, process>>

LoadManifest(m) ==
  /\ Begins
  /\ m.legible /\ m.module # ""
  /\ builder' = [manifest |-> m, todo |-> Files]
  /\ generated' = Nothing

LoadFails == Begins /\ UNCHANGED <<builder, generated>>

(* What gofmt accepts: an empty import path is no Go, nor is a string      *)
(* literal that a quote ends early.                                        *)
Renders(f, data) ==
  IF f = "components.go"
  THEN \A s \in Sections : \A i \in DOMAIN data.parts[s] : data.parts[s][i].alias # ""
  ELSE data.version \notin Breaking /\ data.command \notin Breaking

(* The run exits with status 0 once both files are written.                *)
Render(f) ==
  /\ f \in builder.todo
  /\ Renders(f, TmplData(builder.manifest))
  /\ disk' = [disk EXCEPT ![f] = TmplData(builder.manifest)]
  /\ IF builder.todo = {f}
     THEN builder' = Idle /\ generated' = builder.manifest
     ELSE builder' = [builder EXCEPT !.todo = @ \ {f}] /\ UNCHANGED generated
  /\ UNCHANGED <<runs, binary, process>>

(* A mutant: the loop logs the failure and goes on to the next file.       *)
RenderFailsAndGoesOn(f) ==
  /\ f \in builder.todo
  /\ IF builder.todo = {f}
     THEN builder' = Idle /\ generated' = builder.manifest
     ELSE builder' = [builder EXCEPT !.todo = @ \ {f}] /\ UNCHANGED generated
  /\ UNCHANGED <<disk, runs, binary, process>>

(* The template does not format, or os.WriteFile fails, before or after it *)
(* truncated the file: log.Fatalf ends the run.                            *)
RenderFails(f) ==
  /\ f \in builder.todo
  /\ \/ UNCHANGED disk
     \/ /\ Renders(f, TmplData(builder.manifest))
        /\ disk' = [disk EXCEPT ![f] = Torn]
  /\ builder' = Idle
  /\ UNCHANGED <<generated, runs, binary, process>>

Interrupted ==
  /\ builder # Idle
  /\ builder' = Idle
  /\ UNCHANGED <<disk, generated, runs, binary, process>>

(***************************************************************************)
(* The tool chain.                                                         *)
(***************************************************************************)

(* The import block of components.go: five packages of the module, then    *)
(* the sections' own.                                                      *)
Entries(data) == UNION {{<<s, i>> : i \in DOMAIN data.parts[s]} : s \in Sections}
Entry(data, e) == data.parts[e[1]][e[2]]
Reserved == {"acceptor", "connector", "dispatcher", "processor", "querier"}

(* Both files are whole and of one module; every import resolves, to a     *)
(* package whose factory fits the section; no two share a name.            *)
Compiles(components, main) ==
  /\ {components, main} \cap {Nothing, Torn} = {}
  /\ components.module = main.module /\ main.module \in Modules
  /\ \A e \in Entries(components) :
       LET entry == Entry(components, e)
       IN /\ entry.import \in DOMAIN Catalogue
          /\ Catalogue[entry.import].section = e[1]
          /\ entry.alias \notin Reserved
          /\ \A d \in Entries(components) \ {e} : Entry(components, d).alias # entry.alias

Compile(version) ==
  /\ Compiles(disk["components.go"], disk["main.go"])
  /\ binary' = [components |-> disk["components.go"], main |-> disk["main.go"],
                version |-> version, of |-> generated]
  /\ UNCHANGED <<buildVars, process>>

(***************************************************************************)
(* The program.                                                            *)
(***************************************************************************)
Fatal == Down

LoadConfig(c) ==
  /\ process.phase = "down" /\ binary # Nothing
  /\ process' = IF c.legible
                THEN [Down EXCEPT !.phase = "register", !.binary = binary, !.config = c]
                ELSE Fatal
  /\ UNCHANGED <<buildVars, binary>>

(* A binary's factories, in the order of the generated calls.              *)
Registered(data, s) == [i \in DOMAIN data.parts[s] |-> Catalogue[data.parts[s][i].import]]

(* A mutant: MakeFactoryMap overwrites.                                    *)
DuplicatesOverwrite(factories) == FALSE

(* MakeFactoryMap refuses a second factory of a type.                      *)
Duplicates(factories) ==
  \E i, j \in DOMAIN factories : i < j /\ factories[i].type = factories[j].type
FactoryMap(factories) == {factories[i] : i \in DOMAIN factories}

(* The version that main.go was generated with, unless the linker set one. *)
BuildInfo(b) ==
  [command |-> b.main.command, version |-> orDefault(b.version, b.main.version)]

(* A reference spelled like a key of the connectors section is one: as a   *)
(* terminal it is built, in front of a pipeline it only names a source.    *)
IsConnectorID(c, s) == s \in DOMAIN c.sections["connectors"]
Section(c, ref) ==
  IF ref[1] = "dispatchers" /\ IsConnectorID(c, ref[2]) THEN "connectors" ELSE ref[1]
References(c) ==
  Skipping(c.refs, {<<"acceptors", s>> : s \in DOMAIN c.sections["connectors"]})

RegisterComponents ==
  /\ process.phase = "register"
  /\ LET data == process.binary.components
     IN process' = IF \E s \in Sections : Duplicates(Registered(data, s))
                   THEN Fatal
                   ELSE [process EXCEPT !.phase = "build",
                           !.factories = [s \in Sections |-> FactoryMap(Registered(data, s))],
                           !.info = BuildInfo(process.binary),
                           !.todo = References(process.config)]
  /\ UNCHANGED <<buildVars, binary>>

(* The settings are looked up under the spelling of the reference; without *)
(* an entry the factory's defaults stand.                                  *)
Raw(c, section, s) ==
  IF s \in DOMAIN c.sections[section] THEN c.sections[section][s] ELSE [k \in {} |-> k]

(* A mutant: the factory hands out one Config, decoded into again.         *)
InstanceOfSharedConfig(c, section, s, factory) ==
  LET earlier == SelectSeq(process.instances, LAMBDA i : Is(i.factory, factory))
      shared == IF earlier = <<>> THEN factory.default
                ELSE Decoded(factory, Raw(c, section, Head(earlier).spelled))
  IN [section |-> section, id |-> UnmarshalText(s), spelled |-> s, factory |-> factory,
      cfg |-> New(factory, Decoded([factory EXCEPT !.default = shared], Raw(c, section, s)))]

Instance(c, section, s, factory) ==
  [section |-> section, id |-> UnmarshalText(s), spelled |-> s, factory |-> factory,
   cfg |-> New(factory, Decoded(factory, Raw(c, section, s)))]

Usable(c, section, s, factory) ==
  /\ Decodes(factory, Raw(c, section, s))
  /\ Validates(factory, Decoded(factory, Raw(c, section, s)))

(* A mutant: a reference that cannot be built is passed over.              *)
BuildNextOrSkip ==
  /\ process.phase = "build" /\ process.todo # <<>>
  /\ process' = [process EXCEPT !.todo = Tail(@)]
  /\ UNCHANGED <<buildVars, binary>>

(* buildProcessors, buildDispatcher, buildConnector and buildAcceptor: the *)
(* id, its factory, its settings, the component.                           *)
BuildNext ==
  /\ process.phase = "build" /\ process.todo # <<>>
  /\ LET c == process.config
         spelled == Head(process.todo)[2]
         section == Section(c, Head(process.todo))
         fits == {f \in process.factories[section] : f.type = UnmarshalText(spelled).type}
     IN process' =
          IF ~UnmarshalRefuses(spelled) /\ \E f \in fits : Usable(c, section, spelled, f)
          THEN [process EXCEPT !.todo = Tail(@),
                  !.instances = Append(@, Instance(c, section, spelled, CHOOSE f \in fits : TRUE))]
          ELSE Fatal
  /\ UNCHANGED <<buildVars, binary>>

Serve ==
  /\ process.phase = "build" /\ process.todo = <<>>
  /\ process' = [process EXCEPT !.phase = "serving"]
  /\ UNCHANGED <<buildVars, binary>>

Exit ==
  /\ process.phase = "serving"
  /\ process' = Down
  /\ UNCHANGED <<buildVars, binary>>

Next ==
  \/ \E m \in Manifests : LoadManifest(m)
  \/ LoadFails
  \/ \E f \in Files : Render(f) \/ RenderFails(f)
  \/ Interrupted
  \/ \E v \in LinkVersions \cup {""} : Compile(v)
  \/ \E c \in Configs : LoadConfig(c)
  \/ RegisterComponents
  \/ BuildNext
  \/ Serve
  \/ Exit

Spec == Init /\ [][Next]_vars

(***************************************************************************)
(* Properties.                                                             *)
(***************************************************************************)

(* The type invariant: what lies on disk was rendered from a manifest or   *)
(* is torn, a binary was compiled from whole files, and the references     *)
(* that are built and to be built are those of the configuration.          *)
Renderings == {TmplData(m) : m \in Manifests}
TypeOK ==
  /\ \A f \in Files : disk[f] \in Renderings \cup {Nothing, Torn}
  /\ builder.manifest \in Manifests \cup {Nothing}
  /\ builder.todo \subseteq Files
  /\ (builder.manifest = Nothing) = (builder.todo = {})
  /\ generated \in Manifests \cup {Nothing}
  /\ runs \in 0..MaxRuns
  /\ binary # Nothing => Compiles(binary.components, binary.main)
  /\ process.phase \in {"down", "register", "build", "serving"}
  /\ (process.phase = "down") = (process.config = Nothing)
  /\ process.phase \in {"build", "serving"} =>
       Len(process.instances) + Len(process.todo) = Len(References(process.config))

Assembled == process.phase \in {"build", "serving"}

(* A program compiled after a run of the builder that exited 0 registers   *)
(* what that run's manifest selected, section by section, and reports its  *)
(* command and version: no failed, torn or interrupted run before it, and  *)
(* no order in which the two files were written, leaves a mix of two       *)
(* manifests behind (the loop of cmd/builder's main).                      *)
RunsWhatWasSelected ==
  Assembled /\ process.binary.of # Nothing =>
    LET m == process.binary.of
    IN /\ \A s \in Sections :
            process.factories[s] = {Catalogue[m.parts[s][i].path] : i \in DOMAIN m.parts[s]}
       /\ process.info.command = orDefault(m.name, "querier")
       /\ process.info.version \in LinkVersions \cup {orDefault(m.version, "dev")}

(* No component that a manifest selects disappears: two entries whose      *)
(* import aliases coincide (toTmpl), and two packages that export one      *)
(* component type (MakeFactoryMap), stop the build or the program instead  *)
(* of one of them taking the other's place.                                *)
NothingSelectedIsLost ==
  Assembled /\ process.binary.of # Nothing =>
    \A s \in Sections : Cardinality(process.factories[s]) = Len(process.binary.of.parts[s])

(* What the file gives an instance: its keys that are not zero. An empty   *)
(* endpoint counts where the code gives it a meaning of its own: one of    *)
(* otqp's two, and prometheus's.                                           *)
EmptyMatters(instance, k) ==
  /\ k \in {"endpoint", "grpc_endpoint", "http_endpoint"}
  /\ \/ Is(instance.factory, OTQPAcceptor)
     \/ Is(instance.factory, PrometheusDispatcher)
Given(instance) ==
  LET raw == Raw(process.config, instance.section, instance.spelled)
      keys == {k \in DOMAIN raw : raw[k] # instance.factory.zero[k] \/ EmptyMatters(instance, k)}
  IN [k \in keys |-> raw[k]]

(* An instance runs with what the file gives it and is otherwise like any  *)
(* other of its type: no setting is inherited from an instance built       *)
(* before it, and a key that is left out means what an empty one means, in *)
(* both layers of defaults (createDefaultConfig and New of every package). *)
SettingsFollowTheFile ==
  process.phase = "serving" => \A i \in DOMAIN process.instances :
    LET one == process.instances[i]
    IN /\ \A k \in DOMAIN Given(one) \cap DOMAIN one.cfg :
            Given(one)[k] # one.factory.zero[k] => one.cfg[k] = Given(one)[k]
       /\ \A j \in DOMAIN process.instances :
            LET other == process.instances[j]
            IN Is(one.factory, other.factory) /\ DOMAIN Given(one) = DOMAIN Given(other)
               /\ (\A k \in DOMAIN Given(one) : Given(one)[k] = Given(other)[k])
               => one.cfg = other.cfg
================================================================================
