# auto-mcp in TLA+

auto-mcp reads OpenAPI documents and serves every operation in them as an MCP
tool: a tool call becomes an HTTP request to the service behind the document.
This directory holds TLA+ models of its parts, TLC configurations that check
them on small instances, and proofs, checked by TLAPS, of their main properties
for every instance. `PROJECT.json` maps each definition to the source lines it
stands for, lists every run with its properties, the code's hazards, and where
the code and its documentation disagree.

To repeat the checks: `tlc -workers 2 -config MCToolCall.cfg MCToolCall` (one
line per configuration, see "Runs"), `tlapm ServiceRegistryProofs.tla` (one per
proof module).

## 1. Inventory

| part | source | state it keeps | operations |
|---|---|---|---|
| service sources | `config/services.go`, `discover.go` | the configuration read at startup; the disk, which others edit | `ResolvedServices`, `discoverServices`, `Rediscover`, `validateServices` |
| service registry | `server/server.go` | `services`, `single`, `toolNames` under `s.mu`; the tool list inside each `mcp.Server` | `New`, `Reload`, `apply`, `WatchReloadSignals` |
| routing | `server/handler/http.go`, `server.go` | the handler's own set of routes under its own lock; open sessions inside the SDK | `requireKnownService`, `serverForRequest`, `SetServices`, `ServeSTDIO` |
| parser, arguments | `parser/parser.go`, `schema.go` | none between operations | `operationParameters`, `assignArgNames`, `createRouteConfig`, `addParameters`, `bodyParameter` |
| parser, loading | `parser/parser.go` (`detectAndParseOpenAPI` and lenient mode) | the document, `notices`, `renames` | version detection, redeclaring the version, renaming components, validation |
| parser, names | `parser/parser.go` | `usedToolNames` of one parse | `processOperations`, `generateTool`, `uniqueToolName` |
| adjustments | `models/adjustments.go`, `parser/adjuster.go` | a file, read once per parse | `ExistsInMCP`, `GetName`, `GetDescription`, `GetResponseTemplate` |
| request builder | `requester/http_builder.go`, `http_auth.go`, `builders.go` | none between calls | `BuildRequest` and its eleven steps, host hooks, signer |
| credentials | `config/security.go`, `security/security.go` | schemes and requirements, interpolated at startup | `resolveSecurity`, `Apply`, `Verify` |
| tool call | `server/tool`, `auth/middleware`, `server/handler/http.go` | the context of one call | middleware, handler, executor, response shaper |
| config builder | `internal/tui`, `cmd/mcp-config-builder` | pages, list, filter, editor, export page | one per key and one per message |
| parser, schemas | `parser/jsonschema.go`, `parser.go` | the schemas a conversion is inside of | `convertSchema`, `applyComposition`, `unionBranches`, `responseSchema` |
| lifecycle | `cmd/auto-mcp/main.go`, `server/server.go` | fx's signal, `appCtx`, the listener, the reload goroutine | `main`, `OnStart`, `OnStop`, `Start`, `serveHTTP`, `ServeSTDIO`, end of `WatchReloadSignals` |
| OAuth endpoints | `auth/...` | none here; the provider's | redirects, token exchange, validation |
| facade, logging, CORS, styles | `automcp`, `logger`, `utils`, `tui/colors` | none | composition, output |

**How they interact.** The configuration names services; the registry asks the
parser for each service's tools and binds every tool to an executor, which is a
request builder with the service's credential; the routing code hands sessions
to the registry's `mcp.Server`s; a tool call on a session runs the handler, the
executor, and the response shaper. SIGHUP makes a goroutine go through all of
this again while requests are served. Around it the process has four more
goroutines (main, the one OnStart starts, the listener's, the requests'), and
ends as soon as one of them calls `os.Exit` or main returns. The config builder is a program of its
own; it shares the adjustments file with the parser.

**What is hard.**

- *Reload against requests.* Routes live in two tables with two locks, tools in
  a third place with the SDK's lock. A request reads the routes twice and the
  services once. Documents are read one after another while somebody edits them.
- *Failure inside a reload.* Any document may be broken; nothing may have
  changed by then.
- *Names.* Parameters of four locations and the body share one namespace;
  operations get names from four sources, with suffixes that are names too; Go
  maps are ranged over.
- *Order inside a request.* Static headers, arguments, hooks, credential and
  signature write the same places one after another.
- *Credentials.* Checked at startup as text, used later as values; the caller's
  and the process's own go through the same code.
- *The end of the process.* A signal, a listener that fails and a pipe that
  closes can meet each other, a reload, or open streams.
- *Schemas.* `allOf` is flattened, branches of a union are merged and published
  as well, cycles are cut: the result must still take what the document takes.
- *Repairs.* Lenient mode renames components whose new names may be taken, and
  every reference has to follow.
- *The terminal program.* Keys act at once, commands answer later and on
  whatever page is active then; filtered and unfiltered indices are both `int`.

What makes each part correct is stated as properties in its module and listed
under "Runs"; the hazards they are aimed at are in `PROJECT.json`.

## 2. Modules

```
ServiceSources <- ServiceRegistry <- ServiceRouting <- MCServiceRouting
                       |                   |-> RoutingContract (refined)
                       |                   '-- Lifecycle <- MCLifecycle, LifecycleProofs
                       '-- ServiceRegistryProofs (LifecycleProofs uses its lemmas)
ToolArguments <- RequestBuilder <- MCRequestBuilder, RequestBuilderProofs
Adjustments   <- ToolNames      <- ToolNamesProofs
              <- ConfigBuilder  <- MCConfigBuilder, ConfigBuilderProofs
              <- AdjustmentsProofs (lemmas of both)
DocumentLoad  <- SchemaMerge    <- SchemaConversion, DocumentProofs
ToolNames, SchemaConversion <- Parser <- MCParser
Security      <- ToolCall       <- MCToolCall, ToolCallProofs
```

**ServiceSources.** `disk` says what a read of each configured place would find:
a document, nothing, a directory without a document, or something no tools can
be built from (it does not parse, or exceeds `max_tool_schema_kib`). `Edit` is
whoever changes the files. `ResolvedServices` and `validateServices` are the
code's functions; the second runs at startup only, as in the code. `mode` is
the transport, which is fixed at startup.

**ServiceRegistry.** `apply`, step by step. `Start`/`Reload` fix the list,
`BuildTools`/`BuildFails` read one document each before the lock is taken,
`BeginService`, `AddTool`, `EndService` bring one service in line, `DropAbsent`
forgets the rest, `Publish` tells the handler and unlocks. Everything the lock
hides from everybody is one step; what is visible without it (the tools of an
`mcp.Server`, the handler's routes) changes in steps of its own. `sig` is the
channel of capacity 1 that signals are delivered through.

**ServiceRouting.** A client's request: the gate's two reads (`GateAny`,
`GateName`), the lookup under the read lock (`Open`), or the session's own
server (`UseSession`); `ServeSTDIO` for the pipe. **RoutingContract** is what
callers are promised: the configuration changes in one step, and every request
is answered, in one step, from the configuration of that moment. It has one
exception. A service without a name answers on every path; when a reload brings
one in, requests that are under way may be *torn*, and a torn request is
answered only on a path that is configured by name. The code tears the requests
that are between the gate's two reads (`torn` in `Contract`). Without the
exception the run finds the 404 of section 5. On stdio nobody has a path.

**Lifecycle.** The process around all this, from start to end. `RegistryStep`
is `New` in main until it returns and the reload goroutine afterwards;
`StartServer` is OnStart; `Listen`, `ServeFails`, `BeginShutdown`, `Drained` and
`ShutdownTimesOut` are `serveHTTP`; `PipeCloses` and `PipeCancelled` are `Run` on
stdio; `Terminate`, `OnStop` and `MainReturns` are fx and main. A SIGHUP before
`signal.Notify` or after `signal.Stop` kills the process, as signals do by
default. Every action has the guard `running`: when a goroutine ends the process
the others stop where they are.

**ToolArguments.** One operation: `AssignArgName` names the declarations in
order, `CreateRouteConfig` and `GenerateTool` make the route and the schema of
those names. The code computes the names twice, from the same list; the model
computes them once and keeps the two results, `route` and `schema`, apart, since
they add undeclared placeholders and the body in different ways.

**RequestBuilder.** A call with any arguments, then `BuildRequest` one step at
a time, in the code's order. A place of the request holds where its content
comes from: an argument's name, the service's or the route's configuration, a
hook, the credential, the signature. A value is kept by how it is rendered
(null, text, text that has to be escaped, list, empty list, object).
`setHeader` copies the merged map in any order, as a Go map does, and
`setTypeAndCookies` replaces its Content-Type only by a type the body has, so
`wire` is what the upstream sees, a Content-Type of the document or the
configuration included. Left out are the headers net/http writes from other
fields of a request, and Cookie (`heldBack`).

**DocumentLoad.** `detectAndParseOpenAPI` step by step over what the probe
decodes to: versions, a section of components, where references lead, and
whether something in it is not allowed. `redeclareVersionIn` and
`renameComponent` (one round of the loop each, in the order of the names) are
lenient mode; `LoadAndValidate` is the loader and both validations. The loader,
the converter from 2.0 and the validator are kin-openapi's and external.

**SchemaMerge, SchemaConversion.** `convertSchema` with the schemas it is inside
of as its parameter, and next to it what a schema means by JSON Schema's
definition (`accepts`), against which the conversion is checked. What the
conversion knowingly gives up is written down as `Regular` and `Exact`, each
conjunct with the reason; the properties are about documents that need none of
it. The keywords, and what one level of a merge does with them, are in
`SchemaMerge`, where what is said of a field or a branch is an operator
parameter (`Merged`, `Accepted`); `SchemaConversion` closes the recursion by
passing each operator to itself. That is what lets one level be proved about.

**Parser.** Composes the three parts of a parse: load, one action per operation,
and `NewParser`, which a reload uses to read everything again.

**Adjustments, ToolNames.** A parse as one action per operation, and `Reparse`,
by which a reload starts a new one with another document or file. The file may
have several blocks for a path; which one a lookup finds is part of the model
because the lookups differ in it. A name is a stem with numeric suffixes, so
that a suffixed name can be what another operation asks for. `sanitizeToolName`
and `nameFromSummary` are arbitrary functions: nothing proved depends on them.

**Security, ToolCall.** How credentials are written, read from the environment,
checked, attached and verified, and a call from the middleware to the result:
`Admit`, `Handle`, `Execute`, `Respond`. `Reload` may come between any two
steps. Whether OAuth's provider accepts a token, whether a request can be built
and what the upstream says (or that it says nothing for 30 seconds) are choices.

**ConfigBuilder.** Keys are actions that change the model at once; what a
command produces is in `messages` or `filtering` until an action delivers it.
The list component's filter is modelled from how the pages use it: copies of the
matching items, `Index()` over the visible ones, `SetItem` over all of them.

## 3. Runs

State counts are distinct states.

| run | states | asks |
|---|---|---|
| `routing_named` | 187 127 | two discovered services, both documents, every edit, failing and succeeding reloads against a client |
| `routing_forms` | 476 676 | `swagger_file` with `services_dir`, over HTTP or a pipe: reloads that switch between the single form and named services |
| `lifecycle` | 213 807 | one configured service over HTTP, SSE or the pipe, from start to end of the process |
| `readded_service` | (violation) | a removed service comes back while a session on it is open |
| `request` | 196 257 | colliding names and up to three arguments of every kind; every credential place, hook outcome and signer with parameters in the same places; headers of two spellings, and Content-Type among them |
| `shadowed_path` | (violation) | a query parameter called like the placeholder |
| `parser` | 92 620 | clashing names under four files with every reload from one document to another; documents lenient mode can and cannot repair; twelve branches, two at a time, in eleven kinds of schema; a union of unions |
| `published_output` | (violation) | an operation that answers with a list and fails with an object |
| `tool_call` | 79 490 | some nine thousand configurations and environments, every presented credential, template and answer |
| `reloaded_credential` | (violation) | the same for a service of `services_dir` |
| `config_builder` | 1 337 100 | every order of keys, page messages and filter answers |
| `filtered_removal` | (violation) | marking a route under a filter |

What they show:

- **routing_named.** `AppliedInFull`: outside the lock every service exposes
  exactly the tools of the document published for it; a failed reload leaves no
  trace. `ServersAreKept`: a service a reload keeps keeps its server.
  `RefusalIsTrue`: no request is refused that the published configuration
  answers, whichever reads a reload falls between. `HangupTakesEffect`: a SIGHUP
  after the last edit, even one that arrives in the middle of a reload, ends
  with the disk's services being served.
- **routing_forms.** `RoutesInStep` (three tables, changed at three moments,
  agree outside the lock), `OwnToolsOnly` (no upstream's tool is on another's
  server, in the middle of a reload either), `OpensOwnService`, and
  `KeepsContract`: routing refines `RoutingContract`, liveness included, while
  reloads change the form.
- **lifecycle.** `EveryRequestEnds`: a request that was let in is answered
  however often the registry is locked, unless the process ends first.
  `EndsWhenItMust`: a process that was asked to stop, or whose listener failed,
  ends, in the middle of a reload and with streams open too.
  `SessionsFollowReloads` holds for a configured service on every transport: a
  reload updates its one server in place. `LifecycleTypeOK` includes that a
  refused start leaves no process, that nothing is served before `New` returned
  and that no connection is taken once `Shutdown` was called.
- **readded_service.** The same property fails over HTTP. `apply` forgets the
  server of a removed service without closing its sessions; when the name comes
  back it has another server, and the old session keeps the old list for good.
- **request.** `NamesAreApart`, `SchemaIsAccepted` (what the tool says
  it takes is what the builder accepts), `ArgumentsArrive` (an argument gives
  way only to what the property names; of a header in two spellings either one
  is sent), `CredentialPrevails`, `SignatureCovers`, `BodyIsDescribed` (the
  Content-Type on the wire describes the bytes that are sent).
- **shadowed_path.** `buildURL`'s second loop puts any argument into the
  placeholder of its own name, so a query argument `id` fills `/users/{id}` when
  the renamed `path_id` is missing; the comment above says otherwise.
- **parser.** `NamesAreUnique`, `SuffixOnlyOnClash`, `SameInputSameTools` (an
  unchanged service publishes an unchanged list), `CurationIsApplied`.
  `ComponentsSurvive`: whatever names are taken, renaming keeps every component
  once and every reference on its component. `LenientIsHonest`: what is loaded
  without a notice is what strict mode would have loaded. `NothingRejected` and
  `UnionsAreKept`: of a regular document, the published schema takes every value
  the document takes whose fields are declared, nothing else, and shows every
  field of every branch to clients that do not know unions.
- **published_output.** `responseSchema` skips a response that is no object and
  goes on to the next code, down to `default`, so the error's schema becomes the
  output schema of an operation that returns a list. The comment above it says
  that a wrong shape is worse than none.
- **tool_call.** `ExposedCallersAreKnown`, `OwnCredentialIsNotLent` (passthrough
  sends the caller's credential or nothing), `StartupChecksSuffice` (no call
  fails for want of a credential that startup should have asked for),
  `CredentialsAreResolved`, `AnswerIsFaithful`.
- **reloaded_credential.** `Rediscover` reads `service.yaml` again and uses its
  credential as it is written; only startup interpolates. After a reload the
  upstream is sent the text `${VAR}`.
- **config_builder.** `ExportIsCurrent` (what is exported is what the list shows
  when the page turns), `EditedItemIsVisible` (the editor never loses its item;
  the code asserts its type), `EditsAreLocal`, `FileRoundTrips` (the parser's
  lookups over the file give back what was exported).
- **filtered_removal.** `SetItem` takes an index of all items and gets one of the
  visible ones: removing the only match overwrites the first route.

### Bounds

| bound | value | why it is enough |
|---|---|---|
| `MaxEdits` | 2 | a reload reads at most two documents; two edits fall before, between and after the reads, break the document and mend it, or empty `services_dir` and fill it again, which goes to the single form and back |
| `MaxInstances` | 2 | a service must be removed by a reload to get a second server, so edits exhaust it |
| `Client` | 1 | clients share nothing but the registry, which they only read |
| documents | 2 | one tool in common, one each: a reload keeps, adds and removes tools |
| `MaxSuffix` | 2 | the parameters of one operation collide at most twice |
| `Calls` | up to 3 arguments | as many as the operations have parameters that can meet in one place |
| `MaxCandidate` | 3 | of two components that need a name, one candidate each can be taken and a third is free, as the code's unbounded search needs |
| `Value` | some three hundred | each field with each scalar and one level of nesting, more than a branch can tell apart |
| `MaxDepth` | 20 | the code's; cycles are cut by the path long before |
| `Rewritten` | of the naming instances only | schemas and repairs depend on one document, not on the parse before |
| `MaxReloads` | 1 | a second reload reads the same configuration again |
| calls | one at a time | calls share only the configuration; `Forget` starts the next |
| filter commands | one at a time | a later answer replaces an earlier one |
| routes in the builder | 2, of one path | the least for which visible and full indices differ |
| after an export | no key | the program ends one second later |

`CHECK_DEADLOCK` is on everywhere: where a program has ended (`Exited`,
`Returned`, `Refused`, `Over`) the model says so with a stuttering action.

### Fairness

`routing_named`, `routing_forms` and `lifecycle` check liveness. `ServiceRouting` assumes weak
fairness of the reload goroutine and of each request inside the handlers: Go
schedules runnable goroutines, and neither waits for anything but a mutex.
`Open` needs strong fairness: it waits for a `sync.RWMutex`, which between two
writers lets in the readers that were waiting. `Lifecycle` assumes the same
while the process runs, and that main and the goroutine of OnStart are scheduled
and fx delivers the signal it has taken. Clients, signals, edits, the listener
(which may bind late or never) and the drain of connections are under no
fairness: nobody has to act.

## 4. Proofs

TLC checks the instances above. The theorems hold for any constants that
satisfy the named assumptions: any number of services, documents, parameters,
operations, configurations, edits and clients.

**ServiceRegistryProofs.** `RoutesInStep`, `AppliedInFull` and `OwnToolsOnly`
speak of states outside the lock and say nothing of how a reload gets there. The
inductive invariant therefore follows `apply`: while a service is being
installed its server holds exactly the tools added so far, services finished in
this round expose their prepared documents, services still to come expose what
was published before, and a server not yet created holds nothing. `TypeInvariant`
comes first: the types (`TypeCorrect`) with the relation between the stage and
the local variables of `apply`. `ServersSurviveReloads`, `RefusalsAreTrue` and `SessionsOpenOwnService`
are action properties on top of it. The second assumes that no unnamed service
is configured (`NamedOnly`), and it needs this: with one, the gate's two reads
can both miss (see section 5). The third needs less, that no entry under
`services` lacks a name: then a batch is the single form alone or named services
only (`OneForm`), so the server that answers on any path is never there beside a
named one. `ImplementsContract` is the safety half of the refinement of
`RoutingContract`, initial states and steps: `Publish` is `Reconfigure`, `Send`
is `Ask`, the gate's refusal, its admission of a request of an open session and
the lookup are `Respond`, the second read's admission of a torn request on a
configured path is `Mend`, and everything else changes nothing the contract
shows. It assumes nothing of the configuration or the transport: it rests on
`single`, `services` and `known` agreeing outside the lock (`RoutesInStep`), and
on no request being under way on stdio (`PipeIsIdle`).
`HangupsAreHeard` and `ReloadsRunOut` are the part of `HangupTakesEffect` that
is safety. Once the disk no longer changes and a signal waits, there is a signal
waiting, a reload under way that has read this disk and nothing else, or the
disk's services are served (`Heard` is inductive); and each step of a reload
leaves less of it to do (`Nearer`: a later stage, fewer services, fewer tools).
`ReloadsNeverStick` adds that a reload that is not done can always take one more:
a condition for each step, `StepIsOpen`, that an induction over the stages keeps
true. It takes the place of `ENABLED`, which cannot be proved about.

**RequestBuilderProofs.** `ArgumentsAreApart`: the names given are injective,
because each candidate is looked up among all names given and the body's.
`ToolsTakeWhatTheySay`: schema and route are made of the same names.
`CredentialsPrevail` and `SignaturesCover`: from the step that attaches the
credential on, nothing but the signer writes its place, and nothing at all is
written after the signer was shown the request. `SignaturesCover`,
`EveryArgumentArrives` and `BodiesAreDescribed` are read off the whole request
(`RequestsAreAsAsked`, below): where each part comes from says which argument is
in it, what the signer was shown and which Content-Type is on the wire. None of
them assumes anything of the header names: the property names each one an
argument may give way to, the other spellings of its own header (`Rivals`) among
them. `RequestsAreTyped` is type correctness. `NothingElseIsPlaced` is the other side
of the run `shadowed_path`: nothing but an argument of the path parameter itself
fills a placeholder if nothing else is called like it (`PlaceholdersStandAlone`:
no parameter of another location, no renamed argument, not the body). It goes
back to how names are given: an accepted argument with the placeholder's name
has it as a first candidate, as a renamed one or as the body's, and only the
first is left. The lemmas have one step per step of
`BuildRequest`.

Three theorems say what a call comes to, whole, without any assumption on the
document or the configuration. `CallsAreAnsweredAsGiven`: tool, upstream and
arguments stay what they were when the call was made. `RefusalsAreForAReason`:
it is refused if and only if one of `Refusable`'s reasons is there, which are
conditions on the call alone; the invariant (`ReasonsInv`) says which of them the
steps taken so far have excluded. `RequestsAreAsAsked`: of a request that is
sent every part is the one determined by the call, nothing missing and nothing
else in it: of headers that differ in case only any one, and as Content-Type the
body's type where it has one, else what was merged. Its invariant, `PartsInv`, has one conjunct for each part and says from which step on
it is made.

**ToolNamesProofs.** `NoToolIsHidden` rests on the search for a free suffix
always ending: among one more candidates than there are names in use one is free
(a cardinality argument, `UniqueToolNameIsFree`), and the names in use are
exactly those of the tools before. `NamesAreKept` adds that a suffix needs a
clash. `ToolsAreTyped` shows that the lookups are total over files with repeated
blocks and updates. `CurationsApply`: where a file says one thing of an
operation, there is one update to find and each lookup finds it (`OnlyUpdate`),
so selection, description and template are the file's, and so is the name, by
`NamesAreKept`, unless another tool has it. `ReloadsReproduce` compares two parses at the first
operation they order differently, where the sort would have had to put each
before the other.

**ToolCallProofs.** Each theorem follows the call through its stages.
`NothingIsLent`: under passthrough, the value in the context is the presented
one or none, and an empty one is never applied. `UpstreamIsHeard`: the result is
a function of the answer and the tool, and an evaluated template is the only
thing that takes the body's place. `NoUnknownCallers`: the schemes and the
requirement in use are the interpolated ones of the configuration, and only
admitted requests go on. `StartupSuffices`, `ConfiguredCredentialsAreResolved`
and `CallsAreTyped` follow from one invariant about what is in use after any
number of reloads (`UseInv`); the second assumes that no service is discovered,
and the run `reloaded_credential` shows it false without.

**LifecycleProofs.** Every step of `Lifecycle` is a step of `ServiceRouting` or
leaves its variables alone, so the registry's invariants are reused lemma by
lemma (`RoutingHoldsThroughout`); what is new is the relation between the
goroutines (`ProcessIsTyped`). `SessionsAreFollowed` assumes that no service is
discovered, which is what makes it true: the services of the configuration file
are the same before and after a reload, so no server is ever dropped. The run
`readded_service` shows it false without. `RequestsAreRoutedThroughout` and
`ProcessKeepsContract` carry the action properties and the refinement over to
the process, with its signals, its end, and a pipe that closes, which the routing
proofs do not know: on stdio no request is under way and the pipe belongs to no
server before it is served (`PipeInv`). `ServingGoesOn`: nothing but a request to stop or a lost listener
ends a process that serves, whatever is edited, reloaded or asked for.
`StopsAreRemembered` is the safety half of `EndsWhenItMust` (the reason stays,
and until the process has ended a step that leads there is open) and
`RequestsRunOut` that of `EveryRequestEnds` (no step puts a request back, each
of its own brings it nearer to its answer). `TheLockIsGivenUp`: a shutdown never
leaves the server's lock with a goroutine that has stopped. They rest on
`EndInv`, which relates the stop signal, the cancelled context, the listener and
the goroutines that wait for them.

**DocumentProofs.** `RenamingKeepsTheDocument`: of one more candidates than
there are names one is free (a pigeonhole argument over the finite set of names
in use), so no component is put on top of another, and at every round what was
renamed is where `renames` says, with its references still to be rewritten.
`LoadsAreTyped` also bounds the search. `LeniencyIsReported` adds what each
notice stands for, and that a document whose references lead somewhere keeps
that property when it is renamed. It assumes that rewriting the references of a
schema changes nothing else about it (`DocumentAssumption`, evaluated by TLC for
the schemas of the instance).

The rest is about `SchemaMerge`. `FacetsCarryOver` and `AllOfIsBoth`: one level of
`scalarFacets` loses no value, and of an `allOf`'s members that state nothing
twice `mergeSchema` makes exactly their conjunction. `UnionsWiden` is the claim
of `mergeBranchProperty`, that a union has "to describe everything any branch
accepts", for a field that any number of branches have, of any depth: what one of them accepts, and
declares, the merge of all of them accepts. Its hypotheses are the recursion
equations that `SchemaConversion` closes, over a set of published schemas with a
rank, and the condition `alike` of `Regular`; the argument is by the smallest
schema that would be a counterexample, and over the branches by the first that
would be left out. That the published schemas have a rank, as finite trees do,
is its assumption: it cannot be derived from a `RECURSIVE` operator.

**ConfigBuilderProofs.** `ExportsAreCurrent` and `EditorKeepsItsItem` are
inductive as they stand, because every action that changes the list asks for the
list page and a closed editor, or is ctrl+s; that is the argument for dropping a
filter's answer on any other page. `EditsStayLocal` needs the types: without a
filter an index of the visible items is one of all, and so
`UnfilteredRoutesAreKept`: `NoRouteIsLost`, which the run `filtered_removal`
refutes, holds of every session that never filters. `FilesRoundTrip` follows
the exporter's maps into the file and the parser's lookups out of it. The loop
that groups updates by path keeps exactly the rows of that path, in their order
(`LoopRuns`, `DescribedRows`; there would be a least number of rounds after which
it had not, and the round before it did). The order in which Go's map yields the
blocks is a bijection, so every path has one block and the first that matches is
it (`BlocksInOrder`, `FoundBlock`). A filter may have put one route on two
places, and the list may hold it with two texts; so the rows are compared with
the page through the first place of each route, as the lookup finds the first
row. **AdjustmentsProofs** has
the lemmas about lookups that `ToolNames` and `ConfigBuilder` share.

**Model-checked only.** Out of the prover's reach is liveness under fairness:
of `HangupTakesEffect`, `EveryRequestEnds`, `EndsWhenItMust` and the liveness half
of `KeepsContract`, the step from "nothing is lost, a step is open, and each
leaves less to do", which is proved, to "it happens". That `StepIsOpen` is
`ENABLED` of a reload's steps (the bound `MaxInstances` apart) was compared by
TLC; it is not a theorem. `NothingRejected` and `UnionsAreKept` speak of
`convertSchema`, which is recursive over schema trees (`RECURSIVE` operators):
one level of it and the merge of fields are proved, the whole conversion is
checked.

## 5. What the models say beyond the runs

Behaviour of the code that the models contain and that nothing in the
repository forbids or that limits a property:

- A reload does not run `validateServices`. Two services of one name, an unnamed
  service beside discovered ones, or a second service in stdio mode, which
  startup refuses, are accepted by a reload.
- When a reload goes from named services to the single form the gate's two reads
  can see one form each, and a request gets a 404 neither configuration answers
  with: the torn requests of `RoutingContract`, and the only ones. A request that
  has passed the gate when its service goes gets a 400.
- Two headers that differ in case only are written in any order, so a
  configured one (viper lower-cases its names) may replace the caller's argument;
  `http_builder.go:136-137` gives the argument precedence "for the same name".
- A Content-Type that the document or the configuration gives is sent when the
  call has no body, or a body without a type (`http_builder.go:162`), and the
  signer is shown none (line 193): it is the one part of what is sent that
  `SignatureCovers` leaves unsigned. `http_auth.go:18` says of what a signer is
  shown that "everything here is what will actually be sent". A declared
  parameter Content-Type is overwritten by the type of a body.
- A signer is shown the decoded path. `multipart/form-data` is preferred to other types and
  sent as JSON. A body declared for DELETE is never taken.
- A curated name loses to an operation earlier in the order that asks for the
  same name. An update with a name only hides the document's description.
- With OAuth a passthrough upstream gets no credential; in stdio mode OAuth
  refuses every call, since there is no user.
- A body template that does not parse counts as none: prepended and appended
  text still goes around the raw body, and without them structured content is
  sent, as it is beside a template that could not be evaluated on the answer.
  `response.go:16-21` and `docs/CONFIGURATION.md:284-293` say that a template
  that cannot be applied leaves the response untouched and that a configured
  template ends structured content. `AnswerIsFaithful` states what the code does
  and claims neither.
- In the config builder, typing the original description back does not undo an
  edit; marking every route for removal writes an empty selection, which selects
  everything; names and response templates of the file that was opened are not
  written back.

- main returns as soon as `appCtx` is cancelled, so requests in flight do not get
  the `shutdownTimeout` that `serveHTTP` would wait for. On stdio, stopping may
  end with status 1 (`Run` returns the context's error and that goroutine may be
  first), and a closed pipe does not end the process: main still waits for a
  signal.
- A Swagger 2.0 document is never validated, strict mode or not
  (`docs/CONFIGURATION.md:104-107` makes no exception). A list under the key
  `type` in an example makes lenient mode redeclare the version. A reference to
  a part of a renamed component is not rewritten and the document is refused.
  `automcp.go:77-81` says that lenient mode covers exactly two things; it renames
  components as well.
- In schemas, `additionalProperties: false` is dropped, so branches that only it
  kept apart can both match a `oneOf`; a schema-valued `additionalProperties` is
  lost; what an `allOf` requires is forgotten beside a union; of a bound, items
  or union that two branches give one field the first is kept; a union with a
  field is an object even if another branch is a string. A union whose branches
  are unions can turn away what the document takes: the inner merge gives each
  outer branch the fields of all its inner ones, so a value that takes a field
  from one outer branch and another from the other fits neither as published
  (`Nested` in `MCParser`; `Regular` leaves it out, by `Flat`).
  `jsonschema.go:42-43` and `123-135` differ about schemas without a type.

## 6. Not modelled, and what is left

| part | why |
|---|---|
| OAuth endpoints and providers | no state here outlives a request; the provider's verdict is a choice in `ToolCall` |
| embedding facade | composes the parser, builder and handler once, without state of its own; `Parser` and `RequestBuilder` are what it calls |
| schema sizes | their one effect is the content `Unbuildable` |
| flags, environment and file precedence | viper's |
| logging, responses, CORS, styles | output |
| file uploads | no route configuration has one |
| in schemas: `not`, `nullable`, descriptions, formats, defaults, bounds other than a minimum | copied from schema to schema by one assignment each, without a decision |
| in documents: sections of components other than schemas | renamed by the same loop over another map |

Every safety property the passing runs check is proved, save the two of
`SchemaConversion` that section 4 lists as model-checked only, and so is the
safety half of every liveness property. What is left to the checker alone is
fairness and the recursion over schemas.
