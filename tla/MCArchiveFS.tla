---------------------------- MODULE MCArchiveFS -----------------------------
(***************************************************************************)
(* Two filesystems, and records that are in each other's way, above and    *)
(* below a bind point, and links to files, to each other and to nothing.   *)
(***************************************************************************)
EXTENDS ArchiveFS

Names == <<"a", "b", "u">>

Rec(type, path, target, blocks) ==
  [type |-> type, path |-> path, target |-> target, blocks |-> blocks]

AllRecords ==
  { Rec("dir", <<"a">>, <<>>, 0),
    Rec("file", <<"a", "b">>, <<>>, 0),
    Rec("file", <<"b">>, <<>>, 2),
    Rec("file", <<"a", "..", "u", "u">>, <<>>, 1),
    Rec("link", <<"a", "a">>, <<"b">>, 0),
    Rec("link", <<"b">>, <<"u", "a">>, 0),
    Rec("link", <<"u", "a">>, <<"", "u", "u">>, 0),
    Rec("link", <<"u", "u">>, <<"a", "a">>, 0),
    Rec("link", <<"u", "b">>, <<"u">>, 0),
    Rec("dir", <<"u">>, <<>>, 0),
    Rec("socket", <<"u", "a">>, <<>>, 0),
    Rec("symlink", <<"a", "u">>, <<>>, 0) }

B(prefix, fs) == [prefix |-> prefix, fs |-> fs]

Scripts == { <<B(<<>>, 1)>>,
             <<B(<<"u">>, 2), B(<<>>, 1)>>,
             <<B(<<>>, 2), B(<<"u">>, 2), B(<<>>, 1)>> }
=============================================================================
