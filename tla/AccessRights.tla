---------------------------- MODULE AccessRights ----------------------------
(***************************************************************************)
(* The AccessRights enum, the T of every canister in the repository, and   *)
(* its implementation of the AccessControl trait.                          *)
(***************************************************************************)

AllRights == {"Read", "ReadWrite", "ReadWriteManage"}

can_read == {"Read", "ReadWrite", "ReadWriteManage"}

can_write == {"ReadWrite", "ReadWriteManage"}

can_get_user_rights == {"ReadWriteManage"}

can_set_user_rights == {"ReadWriteManage"}

owner_rights == "ReadWriteManage"
=============================================================================
