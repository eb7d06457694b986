--------------------------- MODULE ServiceSources ---------------------------
(***************************************************************************)
(* Where the services of an auto-mcp process come from: the package        *)
(* internal/config (services.go, discover.go) over the file system.        *)
(*                                                                         *)
(* A service is read from one of three origins: the list "services" of the *)
(* configuration file, a subdirectory of "services_dir", or the top-level  *)
(* "swagger_file", which is the unnamed single-service form.  The          *)
(* configuration file is read once, at startup; the documents and the      *)
(* directories are read again by every reload, and somebody else edits     *)
(* them meanwhile (Edit).                                                  *)
(***************************************************************************)
EXTENDS FiniteSets, Naturals

CONSTANTS
  Name,          \* service names, i.e. route segments after /mcp
  Unnamed,       \* the empty name
  ExplicitName,  \* names under "services" (Unnamed: an entry with no name)
  DirName,       \* subdirectories services_dir may have ({}: no services_dir)
  HasMain,       \* is swagger_file set
  Modes,         \* the transports server.mode may name
  Doc,           \* documents a service can be built from
  Tool,          \* tool names
  ToolsOf,       \* [Doc -> SUBSET Tool]: the tools a document yields
  Missing,       \* nothing on disk
  NoSpec,        \* a directory without an OpenAPI document
  Unbuildable,   \* a document that does not parse, or above max_tool_schema_kib
  InitDisk,      \* the disks the process may be started on
  MaxEdits       \* bound: changes made to the disk

VARIABLES
  disk,          \* [Entry -> Content], what a read would find now
  mode,          \* server.mode, part of what is read once
  edits          \* number of changes so far, only to bound the model

Entry ==
  [name : ExplicitName, origin : {"explicit"}]
    \cup [name : DirName, origin : {"discovered"}]
    \cup (IF HasMain THEN {[name |-> Unnamed, origin |-> "main"]} ELSE {})

Content == Doc \cup {Missing, NoSpec, Unbuildable}

ASSUME SourcesAssumption ==
  /\ Unnamed \in Name
  /\ ExplicitName \subseteq Name
  /\ DirName \subseteq Name \ {Unnamed}    \* serviceNamePattern
  /\ HasMain \in BOOLEAN /\ Modes \subseteq {"sse", "http", "stdio"}
  /\ ToolsOf \in [Doc -> SUBSET Tool]
  /\ Missing \notin Doc /\ NoSpec \notin Doc /\ Unbuildable \notin Doc
  /\ InitDisk \subseteq [Entry -> Content]
  /\ MaxEdits \in Nat

explicitServices == {e \in Entry : e.origin = "explicit"}

(***************************************************************************)
(* discoverServices: every subdirectory is a service.  One that holds no   *)
(* document fails the whole scan, as does one whose name is not a single   *)
(* path segment or whose service.yaml is unreadable (not distinguished).   *)
(***************************************************************************)
subdirectories == {e \in Entry : e.origin = "discovered" /\ disk[e] # Missing}
scanFails      == \E e \in subdirectories : disk[e] = NoSpec

(***************************************************************************)
(* ResolvedServices: explicit and discovered services together; the single *)
(* form only when there is neither.  No caller depends on the order, save  *)
(* that an explicit service precedes a discovered one of the same name.    *)
(***************************************************************************)
ResolvedServices ==
  LET combined == explicitServices \cup subdirectories
  IN  IF combined # {} THEN combined
                       ELSE {e \in Entry : e.origin = "main"}

(***************************************************************************)
(* validateServices, which only startup runs: some service is configured,  *)
(* several services are all named and named apart, stdio has one.          *)
(***************************************************************************)
validateServices ==
  LET services == ResolvedServices
  IN  /\ ~scanFails
      /\ services # {}
      /\ \A e, f \in services : e # f => e.name # f.name /\ e.name # Unnamed
      /\ mode = "stdio" => Cardinality(services) = 1

(***************************************************************************)
(* The operator adds, replaces, breaks or removes one document.            *)
(***************************************************************************)
Edit(e, content) ==
  /\ edits < MaxEdits
  /\ disk[e] # content
  /\ content = NoSpec => e.origin = "discovered"
  /\ disk' = [disk EXCEPT ![e] = content]
  /\ edits' = edits + 1
  /\ UNCHANGED mode

sourceVars == <<disk, mode, edits>>

SourcesInit == disk \in InitDisk /\ mode \in Modes /\ edits = 0

SourcesTypeOK ==
  disk \in [Entry -> Content] /\ mode \in Modes /\ edits \in 0 .. MaxEdits
=============================================================================
