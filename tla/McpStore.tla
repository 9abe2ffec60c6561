------------------------------ MODULE McpStore ------------------------------
(***************************************************************************)
(* Saved MCP servers (mcp/service.py, mcp/store.py), seen through one      *)
(* server: an id is made once and servers share nothing.  Locally it is a  *)
(* row of SQLite.  Deployed it is two things, an item of DynamoDB that     *)
(* names its headers and a parameter of SSM that holds their values, and   *)
(* every call to either of them can fail, a write after it took effect.    *)
(*                                                                         *)
(* The item of the model keeps the headers it was saved with so that it    *)
(* can be compared with the parameter; the code reads only their names     *)
(* off it.  A header's value is the number of the save that set it, which  *)
(* stands for updated_at as well.  The limits on a body (MAX_HEADERS,      *)
(* reserved names, lengths) refuse a request before it has any effect.     *)
(***************************************************************************)
EXTENDS HistoryStore

CONSTANTS
    Writers,      \* the requests that may write at a time
    Lower,        \* spelling of a header name -> the name in lower case
    Urls,         \* endpoints: [scheme, host]
    MaxSaves      \* bound: creates and updates in all

Endpoint == [scheme : {"http", "https"},
             host   : {"public", "private",   \* as the URL itself says
                       "rebound"}]            \* a public name that resolves elsewhere

ASSUME McpAssumption ==
    /\ MaxSaves \in Nat
    /\ Urls \subseteq Endpoint
    /\ Absent \notin [stamp : Nat, url : Urls,
                      headers : UNION {[S -> Nat] : S \in SUBSET DOMAIN Lower}]

VARIABLES
    item,     \* the item (or the row of SQLite), or Absent
    prior,    \* what it was before its last write: an eventually consistent read
    secret,   \* the parameter's headers, or Absent
    saves,    \* saves begun
    op,       \* per writer: the request it is at
    doubt     \* what failed, or overlapped, left a pair the store cannot vouch for

mcpVars == <<item, prior, secret, saves, op, doubt>>

(***************************************************************************)
(* URLs and headers.                                                       *)
(***************************************************************************)
\* as saved: deployed, only https to a host that could be public
ValidUrl(url) == backend = "dynamo" => url.scheme = "https" /\ url.host # "private"

\* as connected to: deployed, only where every address is public
Reachable(url) == ValidUrl(url) /\ (backend = "dynamo" => url.host = "public")

NoHeaders == [n \in {} |-> 0]
Spellings == DOMAIN Lower
OneSpelling(headers) ==
    \A m, n \in DOMAIN headers : Lower[m] = Lower[n] => m = n

\* the bodies a request may carry; in a patch Absent removes the header
HeaderSets(value) ==
    {h \in UNION {[S -> {value}] : S \in SUBSET Spellings} : OneSpelling(h)}
Patches(value) ==
    {p \in UNION {[S -> {value, Absent}] : S \in SUBSET Spellings} : OneSpelling(p)}

\* a mutant: names are compared as they are spelt
ApplyBySpelling(current, patch) ==
    LET set == {n \in DOMAIN patch : patch[n] # Absent}
    IN  [n \in (DOMAIN current \ DOMAIN patch) \cup set |->
            IF n \in set THEN patch[n] ELSE current[n]]

\* a header that the patch does not name, in whatever case, is kept
ApplyHeaders(current, patch) ==
    LET kept == {n \in DOMAIN current : \A m \in DOMAIN patch : Lower[m] # Lower[n]}
        set  == {n \in DOMAIN patch : patch[n] # Absent}
    IN  [n \in kept \cup set |-> IF n \in set THEN patch[n] ELSE current[n]]

Parameter(headers) == IF headers = NoHeaders THEN Absent ELSE headers

(***************************************************************************)
(* Requests.                                                               *)
(***************************************************************************)
IdleOp == [pc |-> "idle", alone |-> TRUE, before |-> Absent, next |-> Absent,
           undo |-> NoHeaders]

McpInit ==
    /\ item = Absent /\ prior = Absent /\ secret = Absent
    /\ saves = 0
    /\ op = [w \in Writers |-> IdleOp]
    /\ doubt = FALSE

Busy == {w \in Writers : op[w].pc # "idle"}

\* a request of several calls begins: with another under way neither is alone
Start(w, x) ==
    /\ op' = [v \in Writers |->
                 IF v = w THEN [x EXCEPT !.alone = Busy = {}]
                 ELSE IF v \in Busy THEN [op[v] EXCEPT !.alone = FALSE] ELSE op[v]]
    /\ doubt' = (doubt \/ Busy # {})

At(w, pc) == op[w].pc = pc
Go(w, x) == op' = [op EXCEPT ![w] = x] /\ UNCHANGED doubt
Raise(w) == Go(w, IdleOp)
RaiseDoubtful(w, doubtful) ==
    op' = [op EXCEPT ![w] = IdleOp] /\ doubt' = (doubt \/ doubtful)
\* both halves were written by this request, and by no other meanwhile
Done(w) ==
    op' = [op EXCEPT ![w] = IdleOp] /\ doubt' = (doubt /\ ~op[w].alone)

SetItem(x) == item' = x /\ prior' = item
ItemStays == UNCHANGED <<item, prior>>
Read == IF backend = "dynamo" THEN {item, prior} ELSE {item}

\* POST: SQLite in one transaction; deployed the secret goes first
Create(w, url, headers) ==
    /\ At(w, "idle")
    /\ saves = 0 /\ MaxSaves > 0
    /\ ValidUrl(url)
    /\ saves' = 1
    /\ LET made == [stamp |-> 1, url |-> url, headers |-> headers]
       IN  \/ backend = "sqlite" /\ SetItem(made) /\ UNCHANGED <<secret, op, doubt>>
           \/ /\ backend = "dynamo"
              /\ Start(w, [IdleOp EXCEPT !.pc = "putSecret", !.next = made])
              /\ ItemStays /\ UNCHANGED secret

\* PUT begins with store.get, a deployed DELETE with _get_item; an item that
\* is not there is a 404
GetItem(w, pc) ==
    /\ At(w, "idle")
    /\ IF pc = "getSecret" THEN saves < MaxSaves ELSE backend = "dynamo"
    /\ \E read \in Read \ {Absent} :
          Start(w, [IdleOp EXCEPT !.pc = pc, !.before = read])
    /\ ItemStays /\ UNCHANGED <<secret, saves>>

\* the headers of the item that was read: SQLite has them on the row, and a
\* parameter that is missing is a 503
SavedHeaders(read) ==
    IF backend = "sqlite" \/ read.headers = NoHeaders THEN read.headers ELSE secret

\* store.get is through: the patch, then store.save reads the item again
Patch(w, url, patch) ==
    /\ At(w, "getSecret")
    /\ LET headers == SavedHeaders(op[w].before)
           IN  IF headers = Absent \/ ~ValidUrl(url)
           THEN Raise(w) /\ UNCHANGED saves
           ELSE /\ saves < MaxSaves
                /\ saves' = saves + 1
                /\ Go(w, [op[w] EXCEPT !.pc = "save", !.before = Absent, !.next =
                             [stamp |-> saves + 1, url |-> url, headers |-> ApplyHeaders(headers, patch)]])
    /\ ItemStays /\ UNCHANGED secret

Save(w) ==
    /\ At(w, "save")
    /\ \/ /\ backend = "dynamo"
          /\ \E read \in Read :
                IF read = Absent THEN Raise(w)
                ELSE Go(w, [op[w] EXCEPT !.pc = "previous", !.before = read])
          /\ ItemStays
       \/ backend = "sqlite" /\ item = Absent /\ Raise(w) /\ ItemStays
       \/ backend = "sqlite" /\ item # Absent /\ SetItem(op[w].next) /\ Done(w)
    /\ UNCHANGED <<secret, saves>>

Previous(w) ==
    /\ At(w, "previous")
    /\ LET headers == SavedHeaders(op[w].before)
       IN  IF headers = Absent THEN Raise(w)
           ELSE Go(w, [op[w] EXCEPT !.pc = "putSecret", !.undo = headers])
    /\ ItemStays /\ UNCHANGED <<secret, saves>>

(***************************************************************************)
(* _write: the secret, the item, and what is known when the item fails.    *)
(***************************************************************************)
PutSecret(w) ==
    /\ At(w, "putSecret")
    /\ secret' = Parameter(op[w].next.headers)
    /\ Go(w, [op[w] EXCEPT !.pc = "putItem"])
    /\ ItemStays /\ UNCHANGED saves

\* it is outside the try: one that was reported and yet landed is not undone
PutSecretFails(w) ==
    /\ At(w, "putSecret")
    /\ secret' \in {secret, Parameter(op[w].next.headers)}
    /\ RaiseDoubtful(w, secret' # secret)
    /\ ItemStays /\ UNCHANGED saves

PutItem(w) ==
    /\ At(w, "putItem")
    /\ SetItem(op[w].next)
    /\ Done(w)
    /\ UNCHANGED <<secret, saves>>

PutItemFails(w) ==
    /\ At(w, "putItem")
    /\ SetItem(op[w].next) \/ ItemStays
    /\ Go(w, [op[w] EXCEPT !.pc = "readBack"])
    /\ UNCHANGED <<secret, saves>>

\* a mutant: a put that failed did not land
ReadBackTrusting(w) ==
    /\ At(w, "readBack")
    /\ Go(w, [op[w] EXCEPT !.pc = "restore"])
    /\ ItemStays /\ UNCHANGED <<secret, saves>>

\* strongly consistent; what is neither the new nor the previous item is a
\* concurrent writer's
ReadBack(w) ==
    /\ At(w, "readBack")
    /\ IF item = op[w].next THEN Done(w)
       ELSE IF item = op[w].before THEN Go(w, [op[w] EXCEPT !.pc = "restore"])
       ELSE RaiseDoubtful(w, TRUE)
    /\ ItemStays /\ UNCHANGED <<secret, saves>>

ReadBackFails(w) ==
    /\ At(w, "readBack")
    /\ RaiseDoubtful(w, TRUE)
    /\ ItemStays /\ UNCHANGED <<secret, saves>>

Restore(w) ==
    /\ At(w, "restore")
    /\ secret' = Parameter(op[w].undo)
    /\ Raise(w)
    /\ ItemStays /\ UNCHANGED saves

RestoreFails(w) ==
    /\ At(w, "restore")
    /\ secret' \in {secret, Parameter(op[w].undo)}
    /\ RaiseDoubtful(w, secret' # Parameter(op[w].undo))
    /\ ItemStays /\ UNCHANGED saves

(***************************************************************************)
(* delete: the secret, then the item, so that a failure can be retried.    *)
(***************************************************************************)
DeleteSecret(w) ==
    /\ At(w, "deleteSecret")
    /\ secret' = Absent
    /\ Go(w, [op[w] EXCEPT !.pc = "deleteItem"])
    /\ ItemStays /\ UNCHANGED saves

DeleteSecretFails(w) ==
    /\ At(w, "deleteSecret")
    /\ secret' \in {secret, Absent}
    /\ RaiseDoubtful(w, secret' # secret)
    /\ ItemStays /\ UNCHANGED saves

\* SQLite: one transaction
DeleteRow(w) ==
    /\ At(w, "idle")
    /\ backend = "sqlite" /\ item # Absent
    /\ SetItem(Absent)
    /\ UNCHANGED <<secret, saves, op, doubt>>

DeleteItem(w) ==
    /\ At(w, "deleteItem")
    /\ SetItem(Absent)
    /\ Done(w)
    /\ UNCHANGED <<secret, saves>>

DeleteItemFails(w) ==
    /\ At(w, "deleteItem")
    /\ SetItem(Absent) \/ ItemStays
    /\ RaiseDoubtful(w, item' # Absent)
    /\ UNCHANGED <<secret, saves>>

McpStep(w) ==
    \/ \E url \in Urls :
          \/ \E headers \in HeaderSets(1) : Create(w, url, headers)
          \/ \E patch \in Patches(saves + 1) : Patch(w, url, patch)
    \/ GetItem(w, "getSecret") \/ GetItem(w, "deleteSecret")
    \/ Save(w) \/ Previous(w)
    \/ PutSecret(w) \/ PutSecretFails(w) \/ PutItem(w) \/ PutItemFails(w)
    \/ ReadBack(w) \/ ReadBackFails(w) \/ Restore(w) \/ RestoreFails(w)
    \/ DeleteRow(w) \/ DeleteSecret(w) \/ DeleteSecretFails(w) \/ DeleteItem(w) \/ DeleteItemFails(w)

\* The item and the parameter are one saved definition whenever no request is
\* under way: the values are those of the save that wrote the names and the
\* URL, in one spelling, and without an item there is no parameter.  A put that
\* failed, landed or not, does not break that; what the store cannot vouch for
\* (a failed call to SSM, a failed read-back, two writes at once) lasts until
\* the next save or delete that goes through.
ServerIsOneDefinition ==
    Busy = {} /\ ~doubt =>
        IF item = Absent THEN secret = Absent
        ELSE /\ OneSpelling(item.headers)
             /\ backend = "dynamo" => secret = Parameter(item.headers)
=============================================================================
