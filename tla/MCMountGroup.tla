---------------------------- MODULE MCMountGroup ----------------------------
(***************************************************************************)
(* A small instance of MountGroup: a source without records and two with.  *)
(***************************************************************************)
EXTENDS MountGroup

MCLeaves == {"a", "b", "c"}
MCRecordsOf == [l \in MCLeaves |->
  CASE l = "a" -> << <<"a", 1>>, <<"a", 2>> >>
    [] l = "b" -> << <<"b", 1>>, <<"b", 2>> >>
    [] l = "c" -> <<>>]

Matches == { { <<"a", 1>> }, { <<"a", 2>>, <<"b", 1>> },
             { <<"a", 1>>, <<"a", 2>>, <<"b", 1>>, <<"b", 2>> } }
MCRuleSet == [match : Matches, allow : BOOLEAN]
=============================================================================
