----------------------------- MODULE Conversion -----------------------------
(***************************************************************************)
(* What a conversion makes of a selection and a project (pipeline.py,      *)
(* normalize.py, classify.py, rules.py, assets.py, generate.py,            *)
(* changeset.py and create_conversion_job of api.py), as operators, and    *)
(* the cycle it is part of: a designer uploads the project, converts       *)
(* selections, applies the changes locally, edits, and starts again.       *)
(*                                                                         *)
(* One package.  Its files are a function from paths to contents:          *)
(*   <<"package">>       the resources of package.xml, a sequence          *)
(*   <<"image", name>>   assets/<name>                                     *)
(*   <<"panel", name>>   Panel/Panel_<package>_<name>.xml                  *)
(***************************************************************************)
EXTENDS Integers, FiniteSets, SequencesExt

CONSTANTS
  Selections,   \* what plugins send: a fingerprint, resources with key, content and
                \* size, and top-level nodes; nodes refer to resources by key, or with
                \* ownReference by their style alone; a child is far if its offset to
                \* the panel is no finite number, plain if XML can hold its texts
  Rules,        \* classification rules, in the order load_rules sorts them
  Digest(_, _), \* the id make_resource_id derives from a seed and an attempt
  MaxTopLevel, MaxResources, MaxSession, MaxResource, \* SelectionLimits
  MaxConversion, \* MAX_SELECTION_CONVERSION_BYTES
  MaxBundle,    \* _MAX_CHANGE_BUNDLE_BYTES, where every XML file counts one
  Refused,      \* panel names that are no safe path, or that XML cannot hold
  Unwritable,   \* panel names no file can have, for their length
  Within,       \* pairs of panel names: the file of the second would have to be a
                \* directory for the file of the first
  Jobs,
  Contents,     \* what an image may hold
  MaxEdits,     \* bound: changes the designer makes
  MaxPackage,   \* bound: resources of a package
  MaxAttempts,  \* bound: attempts at an id
  None

ASSUME BoundsAssumption ==
  {MaxEdits, MaxPackage, MaxAttempts, MaxTopLevel, MaxResources, MaxSession, MaxResource,
   MaxConversion, MaxBundle} \subseteq Nat

VARIABLES
  files,     \* the designer's directory
  uploaded,  \* the artifact of its last upload, what conversions read
  jobs,      \* each job: its selection, the changes and what they replace; source is history
  edits,
  form       \* what a conversion finds of the project, and never changes: the package,
             \* no such package, one without a list of resources, or somewhere a
             \* resource with an unsafe path, or one without id or name

vars == <<files, uploaded, jobs, edits, form>>

Forms == {"whole", "absent", "empty", "unsafe", "unindexable"}

Package == <<"package">>

\* What f says, and what g says of the rest.
Over(f, g) == [x \in DOMAIN f \cup DOMAIN g |-> IF x \in DOMAIN f THEN f[x] ELSE g[x]]
-----------------------------------------------------------------------------
(* Selections.                                                             *)

Nodes(node) == {node} \cup Range(node.children)
Size(selection) == FoldLeft(LAMBDA sum, r : sum + r.size, 0, selection.resources)
Keys(selection) == {selection.resources[i].key : i \in DOMAIN selection.resources}

ASSUME SelectionsAssumption == \A s \in Selections :
  /\ s.resources \in Seq([key : Keys(s), content : Contents, size : Nat])
  /\ s.roots \in Seq(Range(s.roots))

\* Mutant: only top-level nodes are looked at.
UnknownAtTop(selection) == \E r \in Range(selection.roots) : ~ r.resources \subseteq Keys(selection)

\* A node at any depth refers to a resource that is not declared.
UnknownResource(selection) ==
  \E r \in Range(selection.roots) : \E n \in Nodes(r) : ~ n.resources \subseteq Keys(selection)

\* validate_selection_manifest, without which no selection is published.
Valid(selection) ==
  /\ Len(selection.roots) <= MaxTopLevel
  /\ Len(selection.resources) <= MaxResources
  /\ \A i, k \in DOMAIN selection.resources :
       selection.resources[i].key = selection.resources[k].key => i = k
  /\ ~UnknownResource(selection)
  /\ \A r \in Range(selection.resources) : r.size <= MaxResource
  /\ Size(selection) <= MaxSession
-----------------------------------------------------------------------------
(* classify_tree: the first rule that matches.                             *)

Matches(node, rule) ==
  /\ rule.type \in {None, node.type}
  /\ node.width >= rule.minWidth
  /\ Len(node.children) >= rule.minChildren

\* The last of the rules has no condition.
ASSUME RulesAssumption ==
  /\ \A i \in DOMAIN Rules : i \in Nat /\ Rules[i].output # None
  /\ \A s \in Selections : \A r \in Range(s.roots) : \A n \in Nodes(r) :
       \E i \in DOMAIN Rules : Matches(n, Rules[i])

OutputType(node) ==
  LET matching == {i \in DOMAIN Rules : Matches(node, Rules[i])}
  IN  IF matching = {} THEN None ELSE Rules[Min(matching)].output

Panels(selection) == {i \in DOMAIN selection.roots : OutputType(selection.roots[i]) = "PANEL"}

\* A style's own reference, which no resource key replaces, is to no asset.
OwnReference(node) == \E n \in Nodes(node) : n.ownReference /\ n.resources = {}

\* The first loop of generate_staging meets a top-level node no rule matches
\* before a panel with such a reference.
Unclassified(selection) ==
  \E i \in DOMAIN selection.roots :
    /\ OutputType(selection.roots[i]) = None
    /\ \A k \in Panels(selection) : OwnReference(selection.roots[k]) => k > i
-----------------------------------------------------------------------------
(* The resources of the package.                                           *)

\* _asset_references: the keys a node or one below it refers to.
References(node) == UNION {n.resources : n \in Nodes(node)}
Assets(selection) == UNION {References(selection.roots[i]) : i \in Panels(selection)}

\* selection_conversion_document looks up the key of every node.
Unresolved(selection) == \E r \in Range(selection.roots) : ~ References(r) \subseteq Keys(selection)

\* It names an asset by the selection and by the place and content of its resource.
Asset(selection, key) ==
  LET i == CHOOSE n \in DOMAIN selection.resources : selection.resources[n].key = key
  IN  <<selection.fingerprint, i, selection.resources[i].content>>

\* Where the image of a name is registered, the last of two, or 0.
Existing(resources, name) ==
  LET found == {i \in DOMAIN resources : resources[i].kind = "image" /\ resources[i].name = name}
  IN  IF found = {} THEN 0 ELSE Max(found)

\* Mutant: the path is compared with its slashes, and never equal.
MatchesNever(project, item, content) == item.folder = "/assets/"

\* Mutant: an image of that name will do.
MatchesByName(project, item, content) == item.folder = "assets"

MatchesRegisteredAsset(project, item, content) ==
  /\ item.folder = "assets"
  /\ <<"image", item.name>> \in DOMAIN project
  /\ project[<<"image", item.name>>] = content

\* Mutant: the first name is taken even if another image has it.
ResolvedFirst(project, resources, asset) == <<asset, 0>>

\* The first attempt whose name is free or holds this very image.
ResolvedAssetName(project, resources, asset) ==
  LET Usable(n) == LET i == Existing(resources, <<asset, n>>)
                   IN  i = 0 \/ MatchesRegisteredAsset(project, resources[i], asset[3])
  IN  <<asset, Min({n \in 0..MaxPackage : Usable(n)})>>

\* index_project, of which a conversion uses the ids of its package.
Ids(resources) == {resources[i].id : i \in DOMAIN resources}

\* Mutant: ids given out in this conversion are not counted.
MakeFromSnapshot(name, resources, registered) ==
  Digest(name, Min({n \in 0..MaxAttempts : Digest(name, n) \notin Ids(registered)}))

\* make_resource_id: the first attempt no resource of the package has.
MakeResourceId(name, resources, registered) ==
  Digest(name, Min({n \in 0..MaxAttempts : Digest(name, n) \notin Ids(resources)}))

\* The attempts at the id of an image give more ids than a package has resources.
ASSUME DigestAssumption ==
  \A s \in Selections : \A key \in Keys(s), n \in 0..MaxPackage :
    Cardinality({Digest(<<Asset(s, key), n>>, attempt) : attempt \in 0..MaxAttempts}) > MaxPackage

\* One asset of _write_package_resources: done.names is what the panels refer to.
Register(project, done, asset) ==
  LET name == ResolvedAssetName(project, done.resources, asset)
      i == Existing(done.resources, name)
      reuse == i # 0 /\ MatchesRegisteredAsset(project, done.resources[i], asset[3])
      id == IF reuse THEN done.resources[i].id ELSE MakeResourceId(name, done.resources, project[Package])
  IN  [resources |-> IF reuse THEN done.resources
                     ELSE Append(done.resources, [id |-> id, kind |-> "image", name |-> name, folder |-> "assets"]),
       names |-> Over([a \in {asset} |-> [id |-> id, name |-> name]], done.names),
       written |-> IF reuse THEN done.written ELSE Over([p \in {<<"image", name>>} |-> asset[3]], done.written)]

\* Its loop, which goes through the assets by their digests: any order will do.
Registrations(project, selection) ==
  LET done[n \in 0..Len(selection.resources)] ==
        IF n = 0 THEN [resources |-> project[Package], names |-> << >>, written |-> << >>]
        ELSE IF selection.resources[n].key \in Assets(selection)
        THEN Register(project, done[n - 1], Asset(selection, selection.resources[n].key))
        ELSE done[n - 1]
  IN  done

PackageResources(project, selection) == Registrations(project, selection)[Len(selection.resources)]
-----------------------------------------------------------------------------
(* generate_staging and the bundle made of it.                             *)

Panel(selection, i, names) ==
  [images |-> {names[Asset(selection, key)] : key \in References(selection.roots[i])},
   texts |-> {n \in DOMAIN selection.roots[i].children : OutputType(selection.roots[i].children[n]) = "TEXT"}]

\* Mutant: the manifest is left out when every image was there already.
PackageFileIfChanged(project, selection, package) ==
  IF package.resources = project[Package] THEN << >> ELSE [p \in {Package} |-> package.resources]

\* A conversion with images stages the manifest even if nothing is added.
PackageFile(project, selection, package) ==
  IF Assets(selection) = {} THEN << >> ELSE [p \in {Package} |-> package.resources]

\* Two panels of one name are one file, written by the last.
Convert(project, selection) ==
  LET package == PackageResources(project, selection)
      Named(name) == {i \in Panels(selection) : selection.roots[i].name = name}
      panels == {<<"panel", selection.roots[i].name>> : i \in Panels(selection)}
  IN  Over(PackageFile(project, selection, package),
           Over(package.written, [p \in panels |-> Panel(selection, Max(Named(p[2])), package.names)]))

\* The second loop of create_conversion_job.
BundleSize(selection, changes) ==
  MapThenSumSet(LAMBDA p : IF p[1] = "image" THEN selection.resources[p[2][1][2]].size ELSE 1,
                DOMAIN changes)

\* The last loop of generate_staging, in its order: of each panel the name,
\* then its children, then the file.
PanelSteps(selection) ==
  UNION {{i} \X (0..Len(selection.roots[i].children) + 1) : i \in Panels(selection)}

Before(s, t) == s[1] < t[1] \/ (s[1] = t[1] /\ s[2] < t[2])

Child(selection, s) == selection.roots[s[1]].children[s[2]]
IsChild(selection, s) == s[2] \in DOMAIN selection.roots[s[1]].children

\* ValueError and OSError, which create_conversion_job handles.
Fails(selection, s) ==
  LET name == selection.roots[s[1]].name
      earlier == {selection.roots[k].name : k \in Panels(selection) \cap (1..s[1] - 1)}
  IN  \/ /\ s[2] = 0
         /\ name \in Refused \/ \E w \in Within : w[1] = name /\ w[2] \in earlier
      \/ /\ IsChild(selection, s)
         /\ ~Child(selection, s).plain /\ OutputType(Child(selection, s)) = "TEXT"
      \/ /\ s[2] = Len(selection.roots[s[1]].children) + 1
         /\ name \in Unwritable \/ \E w \in Within : w[2] = name /\ w[1] \in earlier

\* OverflowError of a child's offset, or KeyError for one no rule matches,
\* before such an error: which nobody handles.
Raises(selection) ==
  \E s \in PanelSteps(selection) :
    /\ IsChild(selection, s)
    /\ Child(selection, s).far \/ OutputType(Child(selection, s)) = None
    /\ \A t \in PanelSteps(selection) : Fails(selection, t) => ~Before(t, s)

\* The errors of a conversion, in the order they are met: those nobody handles
\* end the request, the others are the job's.
Outcome(project, selection) ==
  IF Unresolved(selection) THEN "raised"
  ELSE IF Size(selection) > MaxConversion THEN "conversion_failed"
  ELSE IF form = "unindexable" THEN "raised"
  ELSE IF form \in {"unsafe", "absent"} THEN "conversion_failed"
  ELSE IF Unclassified(selection) THEN "raised"
  ELSE IF \/ \E i \in Panels(selection) : OwnReference(selection.roots[i])
          \/ form = "empty" /\ Assets(selection) # {}
  THEN "conversion_failed"
  ELSE IF Raises(selection) THEN "raised"
  ELSE IF \/ \E s \in PanelSteps(selection) : Fails(selection, s)
          \/ BundleSize(selection, Convert(project, selection)) > MaxBundle
  THEN "conversion_failed" ELSE "ready"

Content(project, path) == IF path \in DOMAIN project THEN project[path] ELSE None
Applied(project, changes) == Over(changes, project)
-----------------------------------------------------------------------------
Component == [id |-> Digest(<<None, 0>>, 0), kind |-> "component", name |-> <<None, 0>>, folder |-> "other"]

Init ==
  /\ form \in Forms
  /\ files = [p \in {Package} |-> IF form = "whole" THEN <<Component>> ELSE << >>]
  /\ uploaded = files
  /\ jobs = [j \in Jobs |-> None]
  /\ edits = 0

\* Bound: the package has room for the images of a selection.
Fits(project, selection) == Len(project[Package]) + Len(selection.resources) <= MaxPackage

Upload == uploaded' = files /\ uploaded # files /\ UNCHANGED <<files, jobs, edits, form>>

\* create_conversion_job: a job is stored with its bundle, or without one if
\* the conversion failed; if it "raised", none is.
CreateJob(j, selection) ==
  LET outcome == Outcome(uploaded, selection)
      changes == IF outcome = "ready" THEN Convert(uploaded, selection) ELSE << >>
  IN  /\ jobs[j] = None
      /\ Valid(selection) /\ Fits(uploaded, selection)
      /\ jobs' = [jobs EXCEPT ![j] =
                    [status |-> outcome, selection |-> selection, changes |-> changes,
                     source |-> IF outcome = "ready" THEN uploaded ELSE << >>,
                     before |-> [p \in DOMAIN changes |-> Content(uploaded, p)]]]
      /\ UNCHANGED <<files, uploaded, edits, form>>

UnchangedLocally(job) == \A p \in DOMAIN job.changes : Content(files, p) = job.before[p]

\* The local apply, as ApplyPromise describes it without faults.
Apply(j) ==
  /\ jobs[j] # None
  /\ jobs[j].status = "ready"
  /\ files' = IF UnchangedLocally(jobs[j]) THEN Applied(files, jobs[j].changes) ELSE files
  /\ jobs' = [jobs EXCEPT ![j].status = IF UnchangedLocally(jobs[j]) THEN "applied" ELSE "apply_failed"]
  /\ UNCHANGED <<uploaded, edits, form>>

\* The designer takes an image out of the package, moves it to another folder
\* of it, or changes its file.
Edit ==
  /\ edits < MaxEdits /\ edits' = edits + 1
  /\ \/ \E i \in DOMAIN files[Package] :
          /\ files[Package][i].kind = "image"
          /\ \/ files' = [files EXCEPT ![Package] = RemoveAt(@, i)]
             \/ files' = [files EXCEPT ![Package][i].folder = "other"]
     \/ \E p \in DOMAIN files \ {Package}, c \in Contents :
          p[1] = "image" /\ files' = [files EXCEPT ![p] = c]
  /\ UNCHANGED <<uploaded, jobs, form>>

Next ==
  \/ Upload \/ Edit
  \/ \E j \in Jobs : Apply(j) \/ \E s \in Selections : CreateJob(j, s)

Spec == Init /\ [][Next]_vars
-----------------------------------------------------------------------------
(* Properties.                                                             *)

\* An image element names a resource of the package by id and file.
Registered(project, image) ==
  \E r \in Range(project[Package]) : r.id = image.id /\ r.name = image.name /\ r.folder = "assets"

\* A conversion of what the validation of selections lets through finds every
\* resource and decision it looks up, at any depth: it ends in an error nobody
\* handles only if a resource of the project has no id or name, or a child of a
\* panel is no finite distance from it, which no validation rules out.
LookupsSucceed ==
  \A j \in Jobs : jobs[j] # None /\ jobs[j].status = "raised" =>
    \/ form = "unindexable"
    \/ \E i \in Panels(jobs[j].selection) :
         \E c \in Range(jobs[j].selection.roots[i].children) : c.far

\* No two resources of the package ever have one id, although ids are eight
\* digits of a digest and may collide with those of any earlier conversion.
ResourceIdsAreUnique ==
  \A i, k \in DOMAIN files[Package] : files[Package][i].id = files[Package][k].id => i = k

\* Applied to the upload it was made from, a bundle leaves every image of its
\* panels registered and holding what the selection holds, although the
\* designer may have changed images of earlier conversions.
BundlesAreSelfContained ==
  \A j \in Jobs : jobs[j] # None /\ jobs[j].status \notin {"raised", "conversion_failed"} =>
    LET project == Applied(jobs[j].source, jobs[j].changes)
    IN  \A i \in Panels(jobs[j].selection), n \in Assets(jobs[j].selection) :
          n \in References(jobs[j].selection.roots[i])
          /\ (\A k \in Panels(jobs[j].selection) :
                jobs[j].selection.roots[k].name = jobs[j].selection.roots[i].name => k <= i) =>
            \E image \in project[<<"panel", jobs[j].selection.roots[i].name>>].images :
              /\ Registered(project, image)
              /\ project[<<"image", image.name>>] = Asset(jobs[j].selection, n)[3]

\* Applying a job never leaves a panel with an image the package does not
\* register, whatever was applied or edited since the job was made.
AppliedPanelsResolve ==
  [][\A j \in Jobs : jobs[j] # None /\ jobs'[j].status = "applied" /\ jobs[j].status # "applied" =>
       \A p \in DOMAIN jobs[j].changes \ {Package} : p[1] = "panel" =>
         \A image \in files'[p].images : Registered(files', image)]_vars

\* An image the package registers is never overwritten by a job.
RegisteredImagesAreKept ==
  [][\A j \in Jobs : jobs[j] # None /\ jobs'[j] # jobs[j] =>
       \A r \in Range(files[Package]) : r.kind = "image" /\ r.folder = "assets" =>
         files'[<<"image", r.name>>] = files[<<"image", r.name>>]]_vars

\* Converting a selection again once its changes are applied changes nothing,
\* whatever project was uploaded: said when it has been, as it then stays.
ConversionIsIdempotent ==
  uploaded = files =>
    \A s \in Selections : Valid(s) /\ Fits(uploaded, s) /\ Outcome(uploaded, s) = "ready" =>
      LET once == Applied(uploaded, Convert(uploaded, s))
      IN  Applied(once, Convert(once, s)) = once
=============================================================================
