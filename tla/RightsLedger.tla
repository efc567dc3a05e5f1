----------------------------- MODULE RightsLedger -----------------------------
(***************************************************************************)
(* domain/rights.py: grants of rights in a production, and the performances*)
(* that use them up.  The cheapest grant that covers a request is taken.   *)
(*                                                                         *)
(* A call is one action.  Money is in cents, a royalty rate in percent, a  *)
(* moment is a number.  Rightsholders, who approved a use and when, and    *)
(* the wording of denials are left out.                                    *)
(***************************************************************************)
EXTENDS Naturals, Sequences, FiniteSets, Functions

CONSTANTS GrantIds,    \* ids in their order, a sequence
          GrantTerms,  \* terms grants come with, a subset of Terms
          Requests,    \* requests made, a subset of Request
          NoGrant,
          Unlimited    \* no limit on performances or audience

ASSUME RightsAssumption ==
    /\ GrantIds \in Seq({GrantIds[k] : k \in DOMAIN GrantIds})
    /\ NoGrant \notin GrantTerms
    /\ \A t \in GrantTerms :
           /\ {t.valid_from, t.valid_until, t.royalty_rate, t.minimum_royalty} \subseteq Nat
           /\ {t.max_performances, t.max_audience} \subseteq Nat \cup {Unlimited}
           /\ t.valid_from <= t.valid_until /\ t.royalty_rate <= 100
    /\ \A r \in Requests : {r.occurs_at, r.audience, r.gross_receipts} \subseteq Nat

VARIABLES grants,   \* id -> NoGrant or Terms
          usage,    \* the uses: [request, grant_id, royalty_due]
          lowered   \* grants whose allowance was replaced by less than was used

rightsVars == <<grants, usage, lowered>>

Granted == {g \in DOMAIN grants : grants[g] # NoGrant}
Position(g) == CHOOSE n \in DOMAIN GrantIds : GrantIds[n] = g

Within(amount, limit) == limit = Unlimited \/ amount <= limit

Covers(g, request) ==
    LET t == grants[g]
    IN  /\ t.active
        /\ t.production_id = request.production_id
        /\ t.right_type = request.right_type
        /\ request.territory \in t.territories
        /\ t.valid_from <= request.occurs_at /\ request.occurs_at <= t.valid_until
        /\ Within(request.audience, t.max_audience)

\* Rounded half up to a cent.
RoyaltyFor(g, gross_receipts) ==
    LET variable == (gross_receipts * grants[g].royalty_rate + 50) \div 100
    IN  IF variable < grants[g].minimum_royalty THEN grants[g].minimum_royalty ELSE variable

UsesFor(g) == {u \in usage : u.grant_id = g}

\* Mutant: one use too many is left.
HasRemainingAfterLast(g) == Within(Cardinality(UsesFor(g)), grants[g].max_performances)

HasRemaining(g) == Within(Cardinality(UsesFor(g)) + 1, grants[g].max_performances)

EligibleGrants(request) == {g \in Granted : Covers(g, request) /\ HasRemaining(g)}

\* The order grants are taken in: the royalty, the end of the grant, its id.
Before(g, h, request) ==
    LET a == RoyaltyFor(g, request.gross_receipts)
        b == RoyaltyFor(h, request.gross_receipts)
        until_g == grants[g].valid_until
        until_h == grants[h].valid_until
    IN  \/ a < b
        \/ a = b /\ until_g < until_h
        \/ a = b /\ until_g = until_h /\ Position(g) <= Position(h)

\* quote, of a request some grant is eligible for.
Quote(request) ==
    CHOOSE g \in EligibleGrants(request) :
        \A h \in EligibleGrants(request) : Before(g, h, request)

\* _rejection_reasons, none of which may apply to a request that is denied.
RejectionReasons(request) ==
    LET production == {g \in Granted : grants[g].production_id = request.production_id}
        matching == {g \in production : grants[g].right_type = request.right_type}
        Timely(g) == /\ grants[g].valid_from <= request.occurs_at
                     /\ request.occurs_at <= grants[g].valid_until
    IN  IF production = {} THEN {"production"}
        ELSE IF matching = {} THEN {"type"}
        ELSE {reason \in {"territory", "window", "audience", "exhausted"} :
                 CASE reason = "territory" ->
                          \A g \in matching : request.territory \notin grants[g].territories
                   [] reason = "window" -> \A g \in matching : ~Timely(g)
                   [] reason = "audience" ->
                          \E g \in matching : ~Within(request.audience, grants[g].max_audience)
                   [] reason = "exhausted" -> \A g \in matching : ~HasRemaining(g)}

(***************************************************************************)
(* The calls.                                                              *)
(***************************************************************************)
AddGrant(g, terms) ==
    /\ g \notin Granted
    /\ grants' = [grants EXCEPT ![g] = terms]
    /\ UNCHANGED <<usage, lowered>>

\* Nothing is asked of the uses the grant has already.
ReplaceGrant(g, terms) ==
    /\ g \in Granted
    /\ grants' = [grants EXCEPT ![g] = terms]
    /\ lowered' = IF Within(Cardinality(UsesFor(g)), terms.max_performances)
                  THEN lowered \ {g} ELSE lowered \cup {g}
    /\ UNCHANGED usage

SameUse(request, other) ==
    /\ request.performance_id = other.performance_id
    /\ request.right_type = other.right_type

Authorize(request) ==
    /\ \A u \in usage : ~SameUse(u.request, request)
    /\ EligibleGrants(request) # {}
    /\ LET g == Quote(request)
       IN  usage' = usage \cup {[request |-> request, grant_id |-> g,
                                 royalty_due |-> RoyaltyFor(g, request.gross_receipts)]}
    /\ UNCHANGED <<grants, lowered>>

Revoke(u) ==
    /\ usage' = usage \ {u}
    /\ lowered' = IF Within(Cardinality(UsesFor(u.grant_id)) - 1,
                            grants[u.grant_id].max_performances)
                  THEN lowered \ {u.grant_id} ELSE lowered
    /\ UNCHANGED grants

\* Mutant: a currency whose grants are none of them active any more has no line.
ExposureOfActive ==
    [currency \in {grants[u.grant_id].currency : u \in {v \in usage : grants[v.grant_id].active}} |->
        LET rows == {u \in usage : grants[u.grant_id].currency = currency}
        IN  [usage_count |-> Cardinality(rows),
             royalty_due |-> SumFunctionOnSet([u \in rows |-> u.royalty_due], rows)]]

\* A line per currency, of the currency the grants of the uses have now.
Exposure ==
    [currency \in {grants[u.grant_id].currency : u \in usage} |->
        LET rows == {u \in usage : grants[u.grant_id].currency = currency}
        IN  [usage_count |-> Cardinality(rows),
             royalty_due |-> SumFunctionOnSet([u \in rows |-> u.royalty_due], rows)]]

RightsInit ==
    /\ grants = [n \in {GrantIds[k] : k \in DOMAIN GrantIds} |-> NoGrant]
    /\ usage = {} /\ lowered = {}

RightsNext ==
    \/ \E g \in DOMAIN grants, terms \in GrantTerms : AddGrant(g, terms) \/ ReplaceGrant(g, terms)
    \/ \E request \in Requests : Authorize(request)
    \/ \E u \in usage : Revoke(u)

RightsSpec == RightsInit /\ [][RightsNext]_rightsVars

(***************************************************************************)
(* Properties.                                                             *)
(***************************************************************************)
RightsTypeOK ==
    /\ \A g \in Granted : grants[g] \in GrantTerms
    /\ \A u \in usage : u.request \in Requests /\ u.grant_id \in Granted
    /\ lowered \subseteq Granted

\* What a denial would say of a request that is covered: only the audience may
\* be named, when it exceeds what another grant allows.
NamedReasonsBlock ==
    \A request \in Requests :
        EligibleGrants(request) # {} => RejectionReasons(request) \subseteq {"audience"}

\* A performance uses a right once.  A grant is used more often than it allows
\* only after it was replaced by one that allows less.  A denial has nothing to say
\* of a request that is covered, but that another grant allows a smaller audience.
UsageIsLicensed ==
    /\ RightsTypeOK /\ NamedReasonsBlock
    /\ \A u, v \in usage : SameUse(u.request, v.request) => u = v
    /\ \A g \in Granted \ lowered :
           Within(Cardinality(UsesFor(g)), grants[g].max_performances)

\* The exposure reports every use and every royalty exactly once, in whatever currency
\* the grants of the uses came to be replaced by.
ExposureIsComplete ==
    LET lines == DOMAIN Exposure
    IN  /\ SumFunctionOnSet([c \in lines |-> Exposure[c].usage_count], lines) = Cardinality(usage)
        /\ SumFunctionOnSet([c \in lines |-> Exposure[c].royalty_due], lines)
               = SumFunctionOnSet([u \in usage |-> u.royalty_due], usage)
=============================================================================
