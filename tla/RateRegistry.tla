---------------------------- MODULE RateRegistry ----------------------------
(***************************************************************************)
(* The registry of rate versions in billing-service                        *)
(* (app/domain/pricing/registry.py).  A version of the rates goes from     *)
(* draft to published; sellers quote a multiplier within its bounds; a     *)
(* request is locked to the multipliers of the version published then.     *)
(* Every call holds the registry's mutex, so that it is one step.          *)
(*                                                                         *)
(* The rows of a version are abstracted to whether two of them conflict    *)
(* (row_conflicts), which adding a row may bring about and nothing undoes. *)
(***************************************************************************)
EXTENDS Integers

CONSTANTS
    RVersions,    \* version ids
    RSellers,     \* seller ids
    RRequests,    \* request ids
    Terms,        \* what a version may be created with: [buyer, lo, hi] multipliers
    Multipliers   \* what sellers may ask for

ASSUME RateConstants ==
    /\ Terms \subseteq [buyer : Nat, lo : Nat, hi : Nat]
    /\ Multipliers \subseteq Nat
    /\ "none" \notin RVersions

VARIABLES
    version,     \* _versions: per id, the version or NoRates
    quotes,      \* _quotes: per seller and version id, a multiplier or NoQuote
    published,   \* _published: an id or "none"
    locks        \* _locks: per request, its price or NoLock

rateVars == <<version, quotes, published, locks>>

NoQuote == -1
RateStatuses == {"draft", "previewed", "approved", "published", "superseded"}
NoRates == [status |-> "none"]
RateRows == [status : RateStatuses, terms : Terms, clash : BOOLEAN]
NoLock == [version |-> "none"]

RateTypeOK ==
    /\ version \in [RVersions -> RateRows \cup {NoRates}]
    /\ quotes \in [RSellers \X RVersions -> Multipliers \cup {NoQuote}]
    /\ published \in RVersions \cup {"none"}
    /\ locks \in [RRequests -> {NoLock} \cup
                     [version : RVersions, buyer : Nat, seller : Multipliers]]

RateInit ==
    /\ version = [v \in RVersions |-> NoRates]
    /\ quotes = [q \in RSellers \X RVersions |-> NoQuote]
    /\ published = "none"
    /\ locks = [r \in RRequests |-> NoLock]

-----------------------------------------------------------------------------
\* _validate(): any quote within the bounds leaves the platform a spread.
Valid(row) == /\ row.terms.lo <= row.terms.hi
              /\ row.terms.hi <= row.terms.buyer
              /\ ~row.clash

\* _require_mutable().
Mutable(v) == version[v].status \in {"draft", "previewed", "approved"}

CreateVersion(v, t, clash) ==
    /\ version[v] = NoRates
    /\ version' = [version EXCEPT ![v] = [status |-> "draft", terms |-> t, clash |-> clash]]
    /\ UNCHANGED <<quotes, published, locks>>

\* The status stays what it is, approved included.
AddRow(v, conflicts) ==
    /\ Mutable(v)
    /\ version' = [version EXCEPT ![v].clash = @ \/ conflicts]
    /\ UNCHANGED <<quotes, published, locks>>

\* Whatever the status of the version.
SetQuote(s, v, m) ==
    /\ version[v] # NoRates
    /\ m \in version[v].terms.lo .. version[v].terms.hi
    /\ quotes' = [quotes EXCEPT ![<<s, v>>] = m]
    /\ UNCHANGED <<version, published, locks>>

Becomes(v, status) == version' = [version EXCEPT ![v].status = status]

PreviewVersion(v) ==
    /\ Mutable(v) /\ Valid(version[v])
    /\ Becomes(v, "previewed")
    /\ UNCHANGED <<quotes, published, locks>>

ApproveVersion(v) ==
    /\ version[v].status \in {"previewed", "draft"} /\ Valid(version[v])
    /\ Becomes(v, "approved")
    /\ UNCHANGED <<quotes, published, locks>>

\* Faulty form of Publishes: what was approved is not validated again.
PublishesApproved(v) == version[v].status = "approved" \/ Valid(version[v])

\* Drafts are accepted, and superseded versions, which is how one rolls back.
Publishes(v) == Valid(version[v])

PublishVersion(v) ==
    /\ version[v].status \notin {"none", "published"}
    /\ Publishes(v)
    /\ version' = [w \in RVersions |->
          CASE w = v -> [version[w] EXCEPT !.status = "published"]
            [] w = published /\ w # v -> [version[w] EXCEPT !.status = "superseded"]
            [] OTHER -> version[w]]
    /\ published' = v
    /\ UNCHANGED <<quotes, locks>>

\* The quotes stay, and count for a version created later under the same id.
DeleteVersion(v) ==
    /\ Mutable(v)
    /\ version' = [version EXCEPT ![v] = NoRates]
    /\ UNCHANGED <<quotes, published, locks>>

\* A request that is locked already is given the same price again.
LockPrice(r, s) ==
    /\ locks[r] = NoLock
    /\ published # "none" /\ quotes[<<s, published>>] # NoQuote
    /\ locks' = [locks EXCEPT ![r] = [version |-> published,
                                      buyer |-> version[published].terms.buyer,
                                      seller |-> quotes[<<s, published>>]]]
    /\ UNCHANGED <<version, quotes, published>>

RateNext ==
    \/ \E v \in RVersions :
          \/ \E t \in Terms, clash \in BOOLEAN : CreateVersion(v, t, clash)
          \/ \E conflicts \in BOOLEAN : AddRow(v, conflicts)
          \/ \E s \in RSellers, m \in Multipliers : SetQuote(s, v, m)
          \/ PreviewVersion(v) \/ ApproveVersion(v) \/ PublishVersion(v) \/ DeleteVersion(v)
    \/ \E r \in RRequests, s \in RSellers : LockPrice(r, s)

RateSpec == RateInit /\ [][RateNext]_rateVars

-----------------------------------------------------------------------------
\* Whatever rows are added after a preview or an approval, and whatever is deleted, rolled back
\* or superseded meanwhile: exactly the version that is named is published, its rows do not
\* conflict and its bounds leave the platform a spread (registry.py publish, _validate).  What a
\* request is locked to is not said here: the quotes of an id that was deleted and created anew
\* were checked against other bounds.
RatesSound ==
    \A v \in RVersions :
        /\ version[v].status = "published" <=> v = published
        /\ version[v].status = "published" => Valid(version[v])
=============================================================================
