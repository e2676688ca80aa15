-------------------------------- MODULE Router --------------------------------
(***************************************************************************)
(* Which servers a document goes to (router.ts). Each server is configured *)
(* with languages and their file extensions; an extension belongs to the   *)
(* language that claims it first, and goes to all servers with that        *)
(* language. The router never changes: a state is a configuration, and     *)
(* MCParts looks at all of them.                                           *)
(***************************************************************************)
EXTENDS Naturals, SequencesExt

CONSTANTS
  N,            \* number of servers, numbered in config order
  Languages, Extensions,
  None          \* of a uri: it has no extension, or there is no uri

ASSUME RouterAssumption ==
  N \in Nat \ {0} /\ IsFiniteSet(Languages) /\ None \notin Languages \cup Extensions

VARIABLE config \* the languages of each server, in their order

Entries == [lang : Languages, exts : SUBSET Extensions]
ServerConfigs ==
  {s \in BoundedSeq(Entries, Cardinality(Languages)) :
     \A i, j \in 1..Len(s) : s[i].lang = s[j].lang => i = j}

RouterInit == config \in [1..N -> ServerConfigs]

-----------------------------------------------------------------------------

AllServers == [n \in 1..N |-> n]

(* A list of servers is in config order. *)
InConfigOrder(servers) == SelectSeq(AllServers, LAMBDA n : n \in servers)

(* The entries that list an extension: the j-th of server n is <<n, j>>. *)
Claims(ext) ==
  {c \in (1..N) \X (1..Cardinality(Languages)) :
     c[2] <= Len(config[c[1]]) /\ ext \in config[c[1]][c[2]].exts}

FirstOf(claims) ==
  CHOOSE c \in claims : \A d \in claims : c[1] < d[1] \/ (c[1] = d[1] /\ c[2] <= d[2])

Entry(c) == config[c[1]][c[2]]

ExtToLang(ext) == IF Claims(ext) = {} THEN None ELSE Entry(FirstOf(Claims(ext))).lang

ServersWith(lang) == {n \in 1..N : \E j \in 1..Len(config[n]) : config[n][j].lang = lang}

(* Mutant: one server for each language. *)
LangToServersFirst(lang) == SubSeq(InConfigOrder(ServersWith(lang)), 1, 1)

LangToServers(lang) == InConfigOrder(ServersWith(lang))

ServersForUri(ext) ==
  IF ext = None \/ ExtToLang(ext) = None THEN AllServers ELSE LangToServers(ExtToLang(ext))

-----------------------------------------------------------------------------
(* Properties. *)

Handles(n, ext) == \E j \in 1..Len(config[n]) : ext \in config[n][j].exts

(* Where the servers agree on the extensions of a language, an extension goes to
   exactly the servers that list it, in config order, though the router looks
   at the language alone. *)
Agreed(ext) ==
  \A n \in 1..N : \A j \in 1..Len(config[n]) :
    config[n][j].lang = ExtToLang(ext) <=> ext \in config[n][j].exts
RoutedAsConfigured ==
  \A ext \in Extensions :
    Claims(ext) # {} /\ Agreed(ext)
      => ServersForUri(ext) = InConfigOrder({n \in 1..N : Handles(n, ext)})
=============================================================================
