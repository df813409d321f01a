---------------------------- MODULE MCJarStream ----------------------------
(***************************************************************************)
(* Small archives: three classes with a simple name in common, two entries *)
(* written to the same path, and none at all.                              *)
(***************************************************************************)
EXTENDS JarStream

Entry(c, f) == [class |-> c, file |-> f]

SmallJars ==
  { <<Entry("A", "p/A"), Entry("B", "p/B"), Entry("A", "q/A")>>,
    <<Entry("A", "p/A"), Entry("A", "p/A")>>,
    <<>> }
=============================================================================
