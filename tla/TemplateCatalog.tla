-------------------------- MODULE TemplateCatalog --------------------------
(***************************************************************************)
(* Template catalogues over one directory (src/services): every process    *)
(* has a TimelineTemplateService with the list it loaded, and its          *)
(* TimelineTemplateStore reads and writes one JSON file per template.      *)
(* Nothing is locked.  Between two calls of one process others write,      *)
(* remove, end and start.  A file is written whole or not at all, which    *)
(* is what AtomicPublication promises of a replacing write.                *)
(*                                                                         *)
(* A service keeps its list sorted by name; names differ, so the set of    *)
(* templates stands for the list.  An absent directory is one without      *)
(* files.  A rejected call changes nothing and is not a step.              *)
(***************************************************************************)
EXTENDS TemplateFile, FiniteSets

CONSTANTS
  Processes,
  Names,        \* names a user may give
  Filters,      \* filter queries a user may save
  Projections,  \* projections a caller may pass, valid or not
  InitialFiles, \* what earlier processes and other programs left
  Absent

ASSUME TemplateCatalogAssumption ==
  /\ Names \subseteq Texts \ {EmptyText}
  /\ Filters \subseteq FilterQueries
  /\ Projections \subseteq Seq(EventFields)
  /\ \A files \in InitialFiles :
       /\ DOMAIN files = Identifiers
       /\ \A id \in Identifiers : files[id] = Absent \/ IsJson(files[id])

VARIABLES
  files,      \* the directory: the file of each identifier, or Absent
  templates,  \* templates_ of each service
  loaded,     \* loaded_
  load,       \* the locals of TimelineTemplateStore::Load
  outdated    \* history: the files others changed since a process used them

vars == <<files, templates, loaded, load, outdated>>

Idle == [listed |-> {}, seen |-> {}, found |-> {}, active |-> FALSE]

Init ==
  /\ files \in InitialFiles
  /\ templates = [p \in Processes |-> {}]
  /\ loaded = [p \in Processes |-> FALSE]
  /\ load = [p \in Processes |-> Idle]
  /\ outdated = [p \in Processes |-> {}]

Existing == {id \in Identifiers : files[id] # Absent}

Find(p, id) == {t \in templates[p] : t.identifier = id}

(* ValidateName: loaded, and no other template of the list has the name. *)
ValidateName(p, name, excluded) ==
  /\ loaded[p]
  /\ \A t \in templates[p] : t.identifier = excluded \/ t.name # name

----------------------------------------------------------------------------
(* Loading: the directory is enumerated and each file read while others    *)
(* change it.  An entry that appears meanwhile may or may not be met.      *)

StartLoad(p) ==
  /\ ~loaded[p]
  /\ ~load[p].active
  /\ load' = [load EXCEPT ![p] = [Idle EXCEPT !.active = TRUE, !.listed = Existing]]
  /\ UNCHANGED <<files, templates, loaded, outdated>>

(* The store cannot be inspected or enumerated: the list stays as it was. *)
FailLoad(p) ==
  /\ load[p].active
  /\ load' = [load EXCEPT ![p] = Idle]
  /\ UNCHANGED <<files, templates, loaded, outdated>>

(* LoadTemplateFile accepts one entry. *)
LoadFile(p, id) ==
  /\ load[p].active
  /\ id \in Existing \ load[p].seen
  /\ IsTemplateFile(id, files[id])
  /\ load' = [load EXCEPT ![p].seen = @ \union {id},
                          ![p].found = @ \union {DeserializeTemplate(files[id])}]
  /\ outdated' = [outdated EXCEPT ![p] = @ \ {id}]
  /\ UNCHANGED <<files, templates, loaded>>

(* It reports one: unreadable, cut short, malformed, newer or misplaced. *)
SkipFile(p, id) ==
  /\ load[p].active
  /\ id \in Existing \ load[p].seen
  /\ load' = [load EXCEPT ![p].seen = @ \union {id}]
  /\ UNCHANGED <<files, templates, loaded, outdated>>

(* Mutation: duplicates are kept. *)
EveryTemplate(found) == {found}

(* One template of each name, the first in an order nobody fixes. *)
OnePerName(found) ==
  {chosen \in SUBSET found :
     /\ \A t \in found : \E u \in chosen : u.name = t.name
     /\ \A t, u \in chosen : t.name = u.name => t = u}

FinishLoad(p) ==
  /\ load[p].active
  /\ load[p].listed \intersect Existing \subseteq load[p].seen
  /\ \E chosen \in OnePerName(load[p].found) :
       templates' = [templates EXCEPT ![p] = chosen]
  /\ loaded' = [loaded EXCEPT ![p] = TRUE]
  /\ load' = [load EXCEPT ![p] = Idle]
  /\ UNCHANGED <<files, outdated>>

----------------------------------------------------------------------------
(* The mutations.  Save replaces the file and then the list follows; a     *)
(* save that fails leaves both.                                            *)

Touch(p, id) ==
  outdated' = [q \in Processes |-> IF q = p THEN outdated[q] \ {id}
                                           ELSE outdated[q] \union {id}]

Save(p, t) ==
  /\ files' = [files EXCEPT ![t.identifier] = SerializeTemplate(t)]
  /\ Touch(p, t.identifier)
  /\ templates' = [templates EXCEPT ![p] =
       (@ \ Find(p, t.identifier)) \union {t}]

(* Mutation: identifiers are not random and only lists are asked. *)
UnlistedIdentifiers ==
  {id \in Identifiers : \A p \in Processes : Find(p, id) = {}}

(* 128 random bits are taken to differ from every identifier in use. *)
FreshIdentifiers ==
  {id \in Identifiers : files[id] = Absent /\ \A p \in Processes : Find(p, id) = {}}

Create(p, name, filter, projection) ==
  /\ ValidateName(p, name, EmptyText)
  /\ IsValidTimelineEventProjection(projection)
  /\ \E id \in FreshIdentifiers :
       Save(p, [identifier |-> id, name |-> name, filter |-> filter,
                event_projection |-> projection])
  /\ UNCHANGED <<loaded, load>>

Update(p, id, filter, projection) ==
  /\ loaded[p]
  /\ IsValidTimelineEventProjection(projection)
  /\ \E t \in Find(p, id) :
       Save(p, [t EXCEPT !.filter = filter, !.event_projection = projection])
  /\ UNCHANGED <<loaded, load>>

Rename(p, id, name) ==
  /\ ValidateName(p, name, id)
  /\ \E t \in Find(p, id) : Save(p, [t EXCEPT !.name = name])
  /\ UNCHANGED <<loaded, load>>

Duplicate(p, id, name) ==
  \E t \in Find(p, id) : Create(p, name, t.filter, t.event_projection)

(* A file that is already gone is no failure. *)
RemoveFile(p, id) ==
  /\ files' = [files EXCEPT ![id] = Absent]
  /\ Touch(p, id)

Remove(p, id) ==
  /\ loaded[p]
  /\ Find(p, id) # {}
  /\ RemoveFile(p, id)
  /\ templates' = [templates EXCEPT ![p] = @ \ Find(p, id)]
  /\ UNCHANGED <<loaded, load>>

(* The process ends, in the middle of a load or not, and starts again. *)
Restart(p) ==
  /\ templates' = [templates EXCEPT ![p] = {}]
  /\ loaded' = [loaded EXCEPT ![p] = FALSE]
  /\ load' = [load EXCEPT ![p] = Idle]
  /\ UNCHANGED <<files, outdated>>

Next ==
  \E p \in Processes :
    \/ StartLoad(p) \/ FailLoad(p) \/ FinishLoad(p) \/ Restart(p)
    \/ \E id \in Identifiers : LoadFile(p, id) \/ SkipFile(p, id) \/ Remove(p, id)
    \/ \E name \in Names, filter \in Filters, projection \in Projections :
         Create(p, name, filter, projection)
    \/ \E id \in Identifiers, filter \in Filters, projection \in Projections :
         Update(p, id, filter, projection)
    \/ \E id \in Identifiers, name \in Names : Rename(p, id, name) \/ Duplicate(p, id, name)

Spec == Init /\ [][Next]_vars

----------------------------------------------------------------------------
(* The names and identifiers of a list differ: ValidateName compares with  *)
(* the list as loaded and changed since, and Load keeps one of each name.  *)
NamesAreUnique ==
  \A p \in Processes : \A t, u \in templates[p] :
    t.name = u.name \/ t.identifier = u.identifier => t = u

(* As long as no other process changed a template's file, the list holds   *)
(* what the file says, to the last field: failed saves and removals change *)
(* neither, and nothing of a file is overlooked that a save would drop.    *)
MemoryIsOnDisk ==
  \A p \in Processes : \A t \in templates[p] :
    t.identifier \notin outdated[p] => files[t.identifier] = SerializeTemplate(t)

(* A file that is no template of this version (damaged, newer, misplaced)  *)
(* is skipped and never changed or removed, whoever runs beside.           *)
DamagedFilesSurvive ==
  [][\A id \in Existing :
       ~IsTemplateFile(id, files[id]) => files'[id] = files[id]]_vars
=============================================================================
