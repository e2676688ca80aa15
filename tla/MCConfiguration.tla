--------------------------- MODULE MCConfiguration ---------------------------
(***************************************************************************)
(* What the configuration files hold for TLC: levels that differ, a level  *)
(* that is none, and bridges that are right or wrong in each way the       *)
(* schema tells; local files put a field on top of the base's, for better  *)
(* or worse.                                                               *)
(***************************************************************************)
EXTENDS Configuration

CONSTANTS vue, vtsls, eslint

Link(from, to) == [from |-> from, to |-> to]

SomeBases ==
  {Torn,
   [servers |-> <<vue, vtsls>>, bridges |-> <<Link(vue, vtsls)>>],
   [servers |-> <<vue, vtsls>>, logLevel |-> "DEBUG"],
   [servers |-> <<vue, vtsls, eslint>>, bridges |-> <<Link(vue, vtsls), Link(vue, eslint)>>],
   [servers |-> <<vtsls, vtsls>>, logLevel |-> "LOUD"]}

NoLocals == {Missing}

SomeLocals ==
  {Missing, Torn, NotObject,
   [logLevel |-> "DEBUG"],
   [servers |-> <<vue, vtsls, eslint>>, logLevel |-> "WARN"],
   [servers |-> <<eslint>>],
   [bridges |-> <<Link(vue, vtsls), Link(vtsls, vue)>>],
   [bridges |-> <<Link(vue, vue)>>]}
=============================================================================
