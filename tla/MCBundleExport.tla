-------------------------- MODULE MCBundleExport --------------------------
(***************************************************************************)
(* Instances of BundleExport for TLC: a first build, and builds that       *)
(* differ from it in one thing each.                                       *)
(***************************************************************************)
EXTENDS BundleExport

CONSTANTS body1, body2, licence

Build(src, recipe, facts, rights) ==
    [src |-> src, recipe |-> recipe, facts |-> facts, rights |-> rights]

MCBuilds == {Build(body1, "plain",  "first",  NoRights),
             Build(body2, "plain",  "first",  NoRights),
             Build(body1, "law_id", "first",  NoRights),
             Build(body1, "plain",  "second", NoRights),
             Build(body1, "plain",  "first",  licence)}

Everything == {"rebuild", "fetch"}
=============================================================================
