---------------------------------- MODULE MCOta --------------------------------
(****************************************************************************)
(* A small instance of OtaSnapshots: two files and three answers, in which  *)
(* each file is listed, listed otherwise, dropped or out of scope.          *)
(****************************************************************************)
EXTENDS OtaSnapshots, TLC

CONSTANTS one, two, three, a, b, x, y

MCLists ==
    (one   :> (a :> x @@ b :> x)) @@
    (two   :> (a :> y @@ b :> Unlisted)) @@
    (three :> (a :> Outside @@ b :> y))
================================================================================
