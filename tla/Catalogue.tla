------------------------------ MODULE Catalogue ------------------------------
(***************************************************************************)
(* The configurator's catalogue: policy templates, one of each type the    *)
(* default every generated config takes, and domain endpoints, whose       *)
(* active ones go into every config.  An update reads the row, runs its    *)
(* checks and saves the whole row; creating or updating a default template *)
(* first clears the other defaults of its type.  A save puts a row that    *)
(* was deleted meanwhile back.                                             *)
(***************************************************************************)
EXTENDS Integers, FiniteSets

CONSTANTS
  Templates, Types, Domains, Urls, Editors,
  NoTemplate,
  MaxEdits      \* bound: edits begun

ASSUME CatalogueAssumption ==
  /\ IsFiniteSet(Templates) /\ MaxEdits \in Nat /\ NoTemplate \notin Templates

VARIABLES
  template,  \* policy_templates: [stored, type, isDefault, payload]
  domain,    \* domain_endpoints: [stored, url, isActive]
  edit,      \* per administrator: the row as read and changed, and the next step
  edits,     \* edits begun
  chosen,    \* history: per type, the template last made its default
  offered,   \* history: domains the last edit of each left active
  tangled    \* history: types and domains whose edits overlapped or broke off

catalogueVars == <<template, domain, edit, edits, chosen, offered, tangled>>

Payloads == {"apps", "no apps"}
NoTemplateRow == [stored |-> FALSE, type |-> "none", isDefault |-> FALSE, payload |-> "apps"]
NoDomain == [stored |-> FALSE, url |-> "none", isActive |-> FALSE]
NoEdit == [step |-> "none", id |-> NoTemplate, row |-> NoTemplateRow, site |-> NoDomain, alone |-> TRUE]

TemplateRows == [stored : {TRUE}, type : Types, isDefault : BOOLEAN, payload : Payloads]
DomainRows == [stored : {TRUE}, url : Urls, isActive : BOOLEAN]

CatalogueTypeOK ==
  /\ template \in [Templates -> TemplateRows \cup {NoTemplateRow}]
  /\ domain \in [Domains -> DomainRows \cup {NoDomain}]
  /\ \A a \in Editors : edit[a].step \in {"none", "clear", "save", "site"}
  /\ edits \in 0 .. MaxEdits
  /\ chosen \in [Types -> Templates \cup {NoTemplate}]
  /\ offered \subseteq Domains
  /\ tangled \subseteq Types \cup Domains

CatalogueInit ==
  /\ template = [t \in Templates |-> NoTemplateRow]
  /\ domain = [d \in Domains |-> NoDomain]
  /\ edit = [a \in Editors |-> NoEdit]
  /\ edits = 0
  /\ chosen = [type \in Types |-> NoTemplate]
  /\ offered = {} /\ tangled = {}
-----------------------------------------------------------------------------
(* Faulty variants of definitions below, for mutation of the runs.         *)
ClearedOfEveryType(type, id) ==
  [t \in Templates |-> IF t # id THEN [template[t] EXCEPT !.isDefault = FALSE]
                       ELSE template[t]]
-----------------------------------------------------------------------------
Open == {a \in Editors : edit[a].step # "none"}

(* An edit begins; every edit it overlaps with is no longer alone.         *)
Begun(a, call) ==
  [b \in Editors |->
     IF b = a THEN [call EXCEPT !.alone = Open = {}]
     ELSE [edit[b] EXCEPT !.alone = FALSE]]
BeginsEdit ==
  edits < MaxEdits /\ edits' = edits + 1

(* createPolicyTemplate, up to its first await.                            *)
CreateTemplate(a, t) ==
  \E row \in TemplateRows :
    /\ BeginsEdit /\ edit[a].step = "none" /\ ~template[t].stored
    /\ \A b \in Editors : edit[b].id # t
    /\ edit' = Begun(a, [NoEdit EXCEPT !.step = IF row.isDefault THEN "clear" ELSE "save",
                                       !.id = t, !.row = row])
    /\ UNCHANGED <<template, domain, chosen, offered, tangled>>

(* updatePolicyTemplate: the row is read and changed in memory.            *)
UpdateTemplate(a, t) ==
  \E row \in TemplateRows :
    /\ BeginsEdit /\ edit[a].step = "none" /\ template[t].stored
    /\ edit' = Begun(a, [NoEdit EXCEPT !.step = IF row.isDefault THEN "clear" ELSE "save",
                                       !.id = t, !.row = row])
    /\ UNCHANGED <<template, domain, chosen, offered, tangled>>

(* clearDefaultTemplate: one UPDATE over the type, but for the row itself. *)
Cleared(type, id) ==
  [t \in Templates |->
     IF template[t].type = type /\ t # id THEN [template[t] EXCEPT !.isDefault = FALSE]
     ELSE template[t]]

ClearDefaults(a) ==
  /\ edit[a].step = "clear"
  /\ template' = Cleared(edit[a].row.type, edit[a].id)
  /\ edit' = [edit EXCEPT ![a].step = "save"]
  /\ UNCHANGED <<domain, edits, chosen, offered, tangled>>

(* The types an edit of a template concerns: the row's before and after.   *)
Concerned(a) == ({template[edit[a].id].type} \cup {edit[a].row.type}) \cap Types

ChosenAfter(a) ==
  [type \in Types |->
     IF edit[a].row.isDefault /\ edit[a].row.type = type THEN edit[a].id
     ELSE IF chosen[type] = edit[a].id THEN NoTemplate
     ELSE chosen[type]]

SaveTemplate(a) ==
  /\ edit[a].step = "save"
  /\ template' = [template EXCEPT ![edit[a].id] = edit[a].row]
  /\ edit' = [edit EXCEPT ![a] = NoEdit]
  /\ chosen' = ChosenAfter(a)
  /\ tangled' = IF edit[a].alone
                THEN IF edit[a].row.isDefault THEN tangled \ {edit[a].row.type} ELSE tangled
                ELSE tangled \cup Concerned(a)
  /\ UNCHANGED <<domain, edits, offered>>

(* The clear or the save fails, or the process stops: the clear stays.     *)
BreakOff(a) ==
  /\ edit[a].step \in {"clear", "save"}
  /\ edit' = [edit EXCEPT ![a] = NoEdit]
  /\ tangled' = IF edit[a].step = "save" /\ edit[a].row.isDefault
                THEN tangled \cup Concerned(a) ELSE tangled
  /\ UNCHANGED <<template, domain, edits, chosen, offered>>

DeletePolicyTemplate(t) ==
  /\ BeginsEdit /\ template[t].stored
  /\ template' = [template EXCEPT ![t] = NoTemplateRow]
  /\ chosen' = [type \in Types |-> IF chosen[type] = t THEN NoTemplate ELSE chosen[type]]
  /\ tangled' = IF Open = {} THEN tangled ELSE tangled \cup {template[t].type}
  /\ edit' = [a \in Editors |-> [edit[a] EXCEPT !.alone = FALSE]]
  /\ UNCHANGED <<domain, offered>>

(* ensureUrlAvailable, then the change in memory; a url taken is refused.  *)
UrlFree(d, url) == \A e \in Domains \ {d} : domain[e].url # url

CreateDomainEndpoint(a, d) ==
  \E site \in DomainRows :
    /\ BeginsEdit /\ edit[a].step = "none" /\ ~domain[d].stored
    /\ \A b \in Editors : edit[b].id # d
    /\ UrlFree(d, site.url)
    /\ edit' = Begun(a, [NoEdit EXCEPT !.step = "site", !.id = d, !.site = site])
    /\ UNCHANGED <<template, domain, chosen, offered, tangled>>

UpdateDomainEndpoint(a, d) ==
  \E site \in DomainRows :
    /\ BeginsEdit /\ edit[a].step = "none" /\ domain[d].stored
    /\ site.url = domain[d].url \/ UrlFree(d, site.url)
    /\ edit' = Begun(a, [NoEdit EXCEPT !.step = "site", !.id = d, !.site = site])
    /\ UNCHANGED <<template, domain, chosen, offered, tangled>>

(* The save; a url another edit took since the check breaks the unique     *)
(* index, and nothing is saved.                                            *)
SaveDomain(a) ==
  LET d == edit[a].id IN
  /\ edit[a].step = "site"
  /\ edit' = [edit EXCEPT ![a] = NoEdit]
  /\ IF UrlFree(d, edit[a].site.url)
     THEN /\ domain' = [domain EXCEPT ![d] = edit[a].site]
          /\ offered' = IF edit[a].site.isActive THEN offered \cup {d} ELSE offered \ {d}
          /\ tangled' = IF edit[a].alone THEN tangled ELSE tangled \cup {d}
     ELSE UNCHANGED <<domain, offered, tangled>>
  /\ UNCHANGED <<template, edits, chosen>>

DeleteDomainEndpoint(d) ==
  /\ BeginsEdit /\ domain[d].stored
  /\ domain' = [domain EXCEPT ![d] = NoDomain]
  /\ offered' = offered \ {d}
  /\ tangled' = IF Open = {} THEN tangled ELSE tangled \cup {d}
  /\ edit' = [a \in Editors |-> [edit[a] EXCEPT !.alone = FALSE]]
  /\ UNCHANGED <<template, chosen>>

CatalogueNext ==
  \/ \E a \in Editors :
       \/ \E t \in Templates : CreateTemplate(a, t) \/ UpdateTemplate(a, t)
       \/ ClearDefaults(a) \/ SaveTemplate(a) \/ BreakOff(a)
       \/ \E d \in Domains : CreateDomainEndpoint(a, d) \/ UpdateDomainEndpoint(a, d)
       \/ SaveDomain(a)
  \/ \E t \in Templates : DeletePolicyTemplate(t)
  \/ \E d \in Domains : DeleteDomainEndpoint(d)

CatalogueSpec == CatalogueInit /\ [][CatalogueNext]_catalogueVars
-----------------------------------------------------------------------------
(* normalizeDefaultPolicy: a routing policy of selected apps that selects  *)
(* none gives way to the built-in one.                                     *)
NormalizedPolicy(type, payload) ==
  IF type = "routing" /\ payload = "no apps" THEN "built-in" ELSE payload

(* defaultPolicyTemplate: the policies a config generated now may take;    *)
(* the latest default of several, the built-in policy when there is none.  *)
ClientPolicies(type) ==
  LET defaults == {t \in Templates : template[t].type = type /\ template[t].isDefault} IN
  IF defaults = {} THEN {"built-in"}
  ELSE {NormalizedPolicy(type, template[t].payload) : t \in defaults}

(* buildDomainBundle.                                                      *)
DomainBundle == {d \in Domains : domain[d].isActive}

(* What every generated config carries is what the administrators chose:   *)
(* the policy of the template last made default of its type, and no other, *)
(* or the built-in one; and exactly the domains last left active, each url *)
(* once.  Except for a type or a domain whose edits overlapped, or broke   *)
(* off between the clear and the save, until a default is saved alone      *)
(* (clearDefaultTemplate, defaultPolicyTemplate, buildDomainBundle).       *)
ConfigsCarryChoice ==
  /\ \A type \in Types :
       \/ type \in tangled
       \/ \E a \in Editors : edit[a].step = "save" /\ edit[a].row.isDefault
                               /\ edit[a].row.type = type
       \/ ClientPolicies(type) =
            IF chosen[type] = NoTemplate THEN {"built-in"}
            ELSE {NormalizedPolicy(type, template[chosen[type]].payload)}
  /\ \A d \in Domains \ tangled : d \in DomainBundle <=> d \in offered
  /\ \A d, e \in DomainBundle : d # e => domain[d].url # domain[e].url
=============================================================================
