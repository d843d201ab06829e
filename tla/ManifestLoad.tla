------------------------------ MODULE ManifestLoad ------------------------------
(* Loading the action manifests. RegistryBuilder takes the binary's manifests   *)
(* and then each directory's files, one by one in whatever order read_dir gives *)
(* them, strictly or leniently, while files are edited on disk; RegistryStore   *)
(* then serves the result and checks bodies against its compiled schemas. What  *)
(* happens to calls when a registry is swapped is Registry's.                   *)
EXTENDS Integers, FiniteSets, Sequences

CONSTANTS Ids,          \* action ids
          Contents,     \* what a manifest file may hold, see below
          BuiltIn,      \* the binary's manifests, by id; NoManifest for the others
          DirOrder,     \* the directories in the order they are merged
          YamlFiles,    \* names of YAML files
          Bodies,       \* request and response bodies
          MaxRequest,   \* io.max_request_bytes
          MaxChanges,   \* bound on edits of files
          MaxLoads      \* bound on loads

VARIABLES disk,      \* disk[d][f]: the content of the file, or NoManifest
          builder,   \* the load in progress
          serving,   \* id -> the slot that is served
          lastLoad,  \* how the registry that is served was built
          changes, loads

loadVars == <<disk, builder, serving, lastLoad, changes, loads>>

Dirs == {DirOrder[i] : i \in 1..Len(DirOrder)}

(* A manifest is [id, parses, wellFormed, provider, risk, verifier, fields,     *)
(* writes, request, response, fs]: risk is 0..3, fields says whether            *)
(* verification_config names required_fields, writes whether a side effect is   *)
(* not a read, and request and response are "none", "inline" or "file", or a    *)
(* schema that is "broken" or "outside" of the directory. wellFormed stands for *)
(* the checks of one field: the id, the digest, imports, limits, egress, scopes *)
(* and template, and no secrets, network or empty settings beside an fs block.  *)
NoManifest == [id |-> "none"]
WellFormed(m) == m.wellFormed

HighRiskRules(m) ==
  m.risk >= 2 => /\ m.verifier # "none"
                 /\ m.response # "none" \/ m.fs
                 /\ (m.verifier = "http_status" /\ m.writes) => m.fields

FsRules(m) == m.fs => m.provider = "fs" /\ m.verifier = "fs_hash"

(* ActionSpec::from_yaml: parse, then validate.                                 *)
FromYaml(m) == m.parses /\ WellFormed(m) /\ HighRiskRules(m) /\ FsRules(m)

(* compile_action_schemas: every declared schema must be read and compiled.     *)
SchemasCompile(m) == {m.request, m.response} \cap {"broken", "outside"} = {}

Slot(m, source, file) == [m |-> m, source |-> source, file |-> file]
Empty == Slot(NoManifest, "none", "none")

(* add_embedded.                                                                *)
AddEmbedded ==
  [a \in Ids |-> IF BuiltIn[a] = NoManifest THEN Empty ELSE Slot(BuiltIn[a], "embedded", "none")]

Idle == [at |-> 0, todo |-> {}, actions |-> AddEmbedded, overrides |-> 0, skipped |-> {},
         lenient |-> FALSE, disturbed |-> FALSE]

LoadInit ==
  /\ disk = [d \in Dirs |-> [f \in YamlFiles |-> NoManifest]]
  /\ builder = Idle
  /\ serving = AddEmbedded
  /\ lastLoad = [lenient |-> FALSE, disturbed |-> FALSE, from |-> disk, overrides |-> 0]
  /\ changes = 0 /\ loads = 0

(* Someone writes, replaces or removes a file.                                  *)
ChangeFile(d, f) ==
  /\ changes < MaxChanges
  /\ changes' = changes + 1
  /\ \E m \in Contents \cup {NoManifest} : m # disk[d][f] /\ disk' = [disk EXCEPT ![d][f] = m]
  /\ builder' = [builder EXCEPT !.disturbed = @ \/ builder.at # 0]
  /\ UNCHANGED <<serving, lastLoad, loads>>

(* write_to_file: validated, serialized, parsed again and renamed into place.   *)
WriteToFile(d, f) ==
  /\ changes < MaxChanges
  /\ changes' = changes + 1
  /\ disk[d][f] # NoManifest /\ FromYaml(disk[d][f])
  /\ \E m \in Contents : FromYaml(m) /\ m.id = disk[d][f].id /\ disk' = [disk EXCEPT ![d][f] = m]
  /\ builder' = [builder EXCEPT !.disturbed = @ \/ builder.at # 0]
  /\ UNCHANGED <<serving, lastLoad, loads>>

BeginLoad(lenient) ==
  /\ builder.at = 0 /\ loads < MaxLoads
  /\ loads' = loads + 1
  /\ builder' = [Idle EXCEPT !.at = 1, !.todo = YamlFiles, !.lenient = lenient]
  /\ UNCHANGED <<disk, serving, lastLoad, changes>>

AbortLoad == builder' = Idle

(* Within one directory an id may be declared once.                             *)
Duplicate(a, d) == builder.actions[a].source = d

Overrides(m) == builder.actions[m.id].m \notin {NoManifest, m}

(* add_dir and add_dir_lenient, for one file: unreadable content and schemas    *)
(* that do not compile end a strict load and are skipped by a lenient one, a    *)
(* duplicate ends both; the override is counted before the schemas are tried.   *)
LoadFile(f) ==
  LET d == DirOrder[builder.at]
      m == disk[d][f]
      rest == [builder EXCEPT !.todo = @ \ {f}]
      skip == [rest EXCEPT !.skipped = @ \cup {<<d, f>>}]
      counted == [rest EXCEPT !.overrides = @ + (IF Overrides(m) THEN 1 ELSE 0)]
  IN  /\ builder.at # 0 /\ f \in builder.todo
      /\ CASE m = NoManifest -> builder' = rest
           [] m # NoManifest /\ ~FromYaml(m) ->
                IF builder.lenient THEN builder' = skip ELSE AbortLoad
           [] m # NoManifest /\ FromYaml(m) /\ Duplicate(m.id, d) -> AbortLoad
           [] m # NoManifest /\ FromYaml(m) /\ ~Duplicate(m.id, d) /\ ~SchemasCompile(m) ->
                IF builder.lenient
                THEN builder' = [counted EXCEPT !.skipped = @ \cup {<<d, f>>}]
                ELSE AbortLoad
           [] OTHER -> builder' = [counted EXCEPT !.actions[m.id] = Slot(m, d, f)]
      /\ UNCHANGED <<disk, serving, lastLoad, changes, loads>>

NextDir ==
  /\ builder.at \in 1..(Len(DirOrder) - 1) /\ builder.todo = {}
  /\ builder' = [builder EXCEPT !.at = @ + 1, !.todo = YamlFiles]
  /\ UNCHANGED <<disk, serving, lastLoad, changes, loads>>

(* build, and the registry is served.                                           *)
Build ==
  /\ builder.at = Len(DirOrder) /\ builder.todo = {}
  /\ serving' = builder.actions
  /\ lastLoad' = [lenient |-> builder.lenient, disturbed |-> builder.disturbed, from |-> disk,
                  overrides |-> builder.overrides]
  /\ builder' = Idle
  /\ UNCHANGED <<disk, changes, loads>>

(* check_limits, check_schema and the response's envelope. A body is            *)
(* [size, deep, wide, conforms, envelope].                                      *)
CheckLimits(b) == b.size <= MaxRequest /\ ~b.deep /\ ~b.wide

ValidateActionRequest(a, b) ==
  /\ serving[a] # Empty
  /\ CheckLimits(b)
  /\ serving[a].m.request # "none" => b.conforms

ValidateActionResponse(a, b) ==
  /\ serving[a] # Empty
  /\ CheckLimits(b) /\ b.envelope
  /\ serving[a].m.response # "none" => b.conforms

LoadNext ==
  \/ \E d \in Dirs, f \in YamlFiles : ChangeFile(d, f) \/ WriteToFile(d, f)
  \/ \E lenient \in BOOLEAN : BeginLoad(lenient)
  \/ \E f \in YamlFiles : LoadFile(f)
  \/ NextDir \/ Build

LoadSpec == LoadInit /\ [][LoadNext]_loadVars

--------------------------------------------------------------------------------
SlotOK(slot) ==
  \/ slot = Empty
  \/ slot.m \in Contents \cup {BuiltIn[a] : a \in Ids} /\ slot.source \in Dirs \cup {"embedded"}

(* Type correctness of the files, the builder and the registry.                 *)
LoadTypeOK ==
  /\ disk \in [Dirs -> [YamlFiles -> Contents \cup {NoManifest}]]
  /\ builder.at \in 0..Len(DirOrder) /\ builder.todo \subseteq YamlFiles
  /\ builder.overrides \in Nat /\ builder.skipped \subseteq Dirs \X YamlFiles
  /\ \A a \in Ids : SlotOK(serving[a]) /\ SlotOK(builder.actions[a])
  /\ changes \in 0..MaxChanges /\ loads \in 0..MaxLoads

(* What a directory of valid files says about an action, and what all of them   *)
(* together say: the reference the builder is compared with.                    *)
Declares(files, d, a) == {f \in YamlFiles : files[d][f] # NoManifest /\ files[d][f].id = a}

Layers(files, a) == {i \in 1..Len(DirOrder) : Declares(files, DirOrder[i], a) # {}}

Reference(files, a) ==
  IF Layers(files, a) = {} THEN AddEmbedded[a].m
  ELSE LET top == CHOOSE i \in Layers(files, a) : \A j \in Layers(files, a) : j <= i
       IN  files[DirOrder[top]][CHOOSE f \in Declares(files, DirOrder[top], a) : TRUE]

(* Whatever was loaded, from whatever files in whatever order and while they    *)
(* were edited: a manifest that is served has been validated and its schemas    *)
(* compiled, and no action of the binary is ever lost.                          *)
ServedIsSound ==
  \A a \in Ids :
    /\ serving[a] # Empty => FromYaml(serving[a].m) /\ SchemasCompile(serving[a].m) /\ serving[a].m.id = a
    /\ BuiltIn[a] # NoManifest => serving[a] # Empty

(* A strict load that nobody disturbed took every file, each id once for each   *)
(* directory, and serves the last directory's word on each action, in whatever  *)
(* order the files came.                                                        *)
StrictLoadIsWhole ==
  (loads > 0 /\ ~lastLoad.lenient /\ ~lastLoad.disturbed) =>
    LET files == lastLoad.from
    IN  /\ \A d \in Dirs, f \in YamlFiles :
             files[d][f] # NoManifest =>
               /\ FromYaml(files[d][f]) /\ SchemasCompile(files[d][f])
               /\ Cardinality(Declares(files, d, files[d][f].id)) = 1
        /\ \A a \in Ids : serving[a].m = Reference(files, a)

(* source_files leads an editor to the file that is served, unless it was       *)
(* edited since it was read.                                                    *)
SourceFilesAreTrue ==
  ~lastLoad.disturbed =>
    \A a \in Ids : serving[a].source \in Dirs =>
      lastLoad.from[serving[a].source][serving[a].file] = serving[a].m

(* The rules for manifests carry over to the calls: an accepted response of a   *)
(* high-risk action other than a filesystem one has the envelope and conforms   *)
(* to a declared schema, and no body beyond the limits passes.                  *)
HighRiskResponsesAreChecked ==
  \A a \in Ids, b \in Bodies :
    /\ ValidateActionRequest(a, b) => b.size <= MaxRequest
    /\ (ValidateActionResponse(a, b) /\ serving[a].m.risk >= 2 /\ ~serving[a].m.fs)
         => b.envelope /\ b.conforms

(* The registry serves sound manifests, as the files say, and holds high-risk   *)
(* actions to what it checked at load.                                          *)
ManifestsSafe ==
  /\ ServedIsSound
  /\ StrictLoadIsWhole
  /\ SourceFilesAreTrue
  /\ HighRiskResponsesAreChecked

(* "Path-traversal and duplicate-ID violations still return hard errors": a     *)
(* lenient load that completes left no duplicate id and no escaping schema      *)
(* among the files it could parse.                                              *)
LenientKeepsHardErrors ==
  (loads > 0 /\ lastLoad.lenient /\ ~lastLoad.disturbed) =>
    \A d \in Dirs, f \in YamlFiles :
      LET m == lastLoad.from[d][f]
      IN  (m # NoManifest /\ FromYaml(m)) =>
            /\ "outside" \notin {m.request, m.response}
            /\ Cardinality({g \in Declares(lastLoad.from, d, m.id) : FromYaml(lastLoad.from[d][g])}) = 1
================================================================================
