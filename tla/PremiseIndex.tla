------------------------------ MODULE PremiseIndex ------------------------------
(***************************************************************************)
(* SymbolicPremiseIndex (retrieval.py): the inverted index over the        *)
(* premises a goal may use.  Every goal has its own scope, so the index is *)
(* rebuilt for every goal that is met; with reuse the new one starts from  *)
(* the rows, buckets and neighbours of the one before it, which was built  *)
(* for another state of the same module.                                   *)
(*                                                                         *)
(* The identities, digests and work counts of an index are left out.       *)
(***************************************************************************)
EXTENDS Integers, FiniteSets

CONSTANTS
  Ids,         \* declaration identities, numbers in their order
  Symbols,     \* what a type mentions; a declaration is a symbol too
  Fragments,   \* parts of names
  Names,       \* aliases
  FragmentsOf, \* name_fragments of one alias
  Heads,       \* result heads, Unknown among them
  Arities,
  Unknown,     \* no result head
  ModuleNames, \* an environment and a module in it
  Scopes,      \* the scopes Agda reports, each with its module
  NoModule,    \* no index was built yet
  Reuse        \* _scoped_index_reuse_enabled

\* AllowedPremise with its TypeFeatures.
AllowedPremise == [symbols : SUBSET Symbols, aliases : SUBSET Names, head : Heads, arity : Arities]

\* AllowedPremiseSet, a finite one, and AllowedDependencies when there is a graph: every
\* member has its references, which are members and never itself.
WellFormed(s) ==
  /\ s.module \in ModuleNames /\ s.graph \in BOOLEAN
  /\ DOMAIN s.allowed \subseteq Ids /\ IsFiniteSet(DOMAIN s.allowed)
  /\ s.allowed \in [DOMAIN s.allowed -> AllowedPremise]
  /\ s.refs \in [DOMAIN s.allowed -> SUBSET DOMAIN s.allowed]
  /\ \A i \in DOMAIN s.allowed : i \notin s.refs[i]

ASSUME IndexAssumption ==
  /\ Ids \subseteq Symbols /\ Arities \subseteq Nat /\ Unknown \in Heads
  /\ FragmentsOf \in [Names -> SUBSET Fragments]
  /\ NoModule \notin ModuleNames /\ Reuse \in BOOLEAN
  /\ \A s \in Scopes : WellFormed(s)

VARIABLES
  index, \* the index of _previous_scoped_index
  home   \* the module of its state, or NoModule

indexVars == <<index, home>>

-----------------------------------------------------------------------------
(* An index built from nothing.                                            *)

Members(s) == DOMAIN s.allowed
Vertices(s) == IF s.graph THEN Members(s) ELSE {}

FragmentRow(s, i) == UNION {FragmentsOf[n] : n \in s.allowed[i].aliases}

\* What a declaration refers to, in its type or its clauses, within the scope.
References(s, i) == ((s.allowed[i].symbols \cup s.refs[i]) \cap Members(s)) \ {i}

SymbolRows(s) == [i \in Members(s) |-> s.allowed[i].symbols]
FragmentRows(s) == [i \in Members(s) |-> FragmentRow(s, i)]
ReferenceRows(s) == [i \in Vertices(s) |-> References(s, i)]

\* The inverted rows; a token without a bucket has an empty one.
Postings(T, rows) == [t \in T |-> {i \in DOMAIN rows : t \in rows[i]}]

Fresh(s) == [
  scope       |-> s,
  symbolRows  |-> SymbolRows(s),
  lexicalRows |-> FragmentRows(s),
  symbols     |-> Postings(Symbols, SymbolRows(s)),
  lexical     |-> Postings(Fragments, FragmentRows(s)),
  directed    |-> ReferenceRows(s),
  reverse     |-> Postings(Ids, ReferenceRows(s)),
  neighbors   |-> [i \in Vertices(s) |-> References(s, i) \cup Postings(Ids, ReferenceRows(s))[i]]]

EmptyScope == [module |-> NoModule, graph |-> FALSE, allowed |-> [i \in {} |-> i], refs |-> [i \in {} |-> i]]

-----------------------------------------------------------------------------
(* __post_init__ over the index before.                                    *)

Row(rows, i) == IF i \in DOMAIN rows THEN rows[i] ELSE {}

\* _updated_postings: the buckets follow the rows that changed.
UpdatedPostings(previous, old, rows) ==
  [t \in DOMAIN previous |->
     (previous[t] \ {i \in DOMAIN old : t \in old[i] /\ t \notin Row(rows, i)})
       \cup {i \in DOMAIN rows : t \in rows[i] /\ t \notin Row(old, i)}]

SymbolRow(old, s, i) ==
  IF i \in Members(old.scope) /\ old.scope.allowed[i].symbols = s.allowed[i].symbols
  THEN old.symbolRows[i] ELSE s.allowed[i].symbols

LexicalRow(old, s, i) ==
  IF i \in Members(old.scope) /\ old.scope.allowed[i].aliases = s.allowed[i].aliases
  THEN old.lexicalRows[i] ELSE FragmentRow(s, i)

\* membership_delta: declarations that came into the scope or left it.
MembershipDelta(old, s) == (Members(old.scope) \ Members(s)) \cup (Members(s) \ Members(old.scope))

\* Wrong: a row whose own features did not change is kept, whoever came or left.
KeepsItsRow(old, s, i) ==
  /\ i \in Vertices(old.scope)
  /\ old.scope.allowed[i].symbols = s.allowed[i].symbols
  /\ old.scope.refs[i] = s.refs[i]

\* The references in clauses are members of either scope, so only the type's
\* symbols have to be looked for among those that came or left.
SameReferences(old, s, i) ==
  /\ i \in Vertices(old.scope)
  /\ old.scope.allowed[i].symbols = s.allowed[i].symbols
  /\ old.scope.refs[i] = s.refs[i]
  /\ MembershipDelta(old, s) \cap s.allowed[i].symbols = {}

DirectedRow(old, s, i) == IF SameReferences(old, s, i) THEN old.directed[i] ELSE References(s, i)

Updated(old, s) ==
  LET symbolRows  == [i \in Members(s) |-> SymbolRow(old, s, i)]
      lexicalRows == [i \in Members(s) |-> LexicalRow(old, s, i)]
      directed    == [i \in Vertices(s) |-> DirectedRow(old, s, i)]
      reverse     == UpdatedPostings(old.reverse, old.directed, directed)
  IN [scope       |-> s,
      symbolRows  |-> symbolRows,
      lexicalRows |-> lexicalRows,
      symbols     |-> UpdatedPostings(old.symbols, old.symbolRows, symbolRows),
      lexical     |-> UpdatedPostings(old.lexical, old.lexicalRows, lexicalRows),
      directed    |-> directed,
      reverse     |-> reverse,
      neighbors   |-> [i \in Vertices(s) |->
         IF /\ i \in Vertices(old.scope)
            /\ directed[i] = old.directed[i] /\ reverse[i] = old.reverse[i]
         THEN old.neighbors[i] ELSE directed[i] \cup reverse[i]]]

\* _rank_scoped_premises: start from the previous index if it is of this module.
Ranks(s) ==
  /\ index' = Updated(IF Reuse /\ home = s.module THEN index ELSE Fresh(EmptyScope), s)
  /\ home' = (IF Reuse THEN s.module ELSE home)

IndexInit == index = Fresh(EmptyScope) /\ home = NoModule
IndexNext == \E s \in Scopes : Ranks(s)
IndexSpec == IndexInit /\ [][IndexNext]_indexVars

-----------------------------------------------------------------------------
\* An index is the one its scope would have from nothing: no row, bucket or
\* neighbour is left over from a scope in which the declaration looked different
\* or other declarations were visible.
IndexIsFresh == index = Fresh(index.scope)
=================================================================================
