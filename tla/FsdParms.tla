------------------------------ MODULE FsdParms ------------------------------
(***************************************************************************)
(* include/os2/fsd32.h: the parameter blocks of the FS_* entry points, one *)
(* packed structure for each 32-bit routine FS32_*.  A structure is the    *)
(* sequence of the widths of its fields in bytes, the first the lowest.    *)
(***************************************************************************)
EXTENDS Naturals

Short == 2     \* unsigned short
Long == 4      \* long, unsigned long
Far == 4       \* PTR16

fs32_allocatepagespace_parms == <<Long, Long, Far, Far>>
fs32_chdir_parms == <<Short, Far, Far, Far, Short>>
fs32_chgfileptr_parms == <<Short, Short, Long, Far, Far>>
fs32_close_parms == <<Far, Far, Short, Short>>
fs32_commit_parms == <<Far, Far, Short, Short>>
fs32_dopageio_parms == <<Far, Far, Far>>
fs32_delete_parms == <<Short, Far, Far, Far>>
fs32_exit_parms == <<Short, Short, Short>>
fs32_fileattribute_parms == <<Far, Short, Far, Far, Far, Short>>
fs32_fileinfo_parms == <<Short, Short, Far, Short, Far, Far, Short>>
fs32_findclose_parms == <<Far, Far>>
fs32_findfirst_parms ==
  <<Short, Short, Far, Short, Far, Far, Far, Short, Short, Far, Far, Far>>
fs32_findfromname_parms ==
  <<Short, Far, Long, Short, Far, Short, Far, Far, Far>>
fs32_findnext_parms == <<Short, Short, Far, Short, Far, Far, Far>>
fs32_flushbuf_parms == <<Short, Short>>
fs32_fsctl_parms ==
  <<Far, Short, Far, Far, Short, Far, Short, Short, Far>>
fs32_fsinfo_parms == <<Short, Short, Far, Short, Short>>
fs32_ioctl_parms ==
  <<Far, Short, Far, Far, Short, Far, Short, Short, Far, Far>>
fs32_mkdir_parms == <<Short, Far, Short, Far, Far, Far>>
fs32_mount_parms == <<Far, Short, Far, Far, Short>>
fs32_move_parms == <<Short, Short, Far, Short, Far, Far, Far>>
fs32_newsize_parms == <<Short, Long, Far, Far>>
fs32_opencreate_parms ==
  <<Far, Far, Short, Far, Short, Long, Far, Far, Short, Far, Far, Far>>
fs32_openpagefile_parms ==
  <<Long, Short, Short, Short, Far, Far, Far, Far, Far>>
fs32_pathinfo_parms == <<Short, Far, Short, Short, Far, Far, Far, Short>>
fs32_read_parms == <<Short, Far, Far, Far, Far>>
fs32_rmdir_parms == <<Short, Far, Far, Far>>
fs32_shutdown_parms == <<Long, Short>>
fs32_write_parms == <<Short, Far, Far, Far, Far>>

\* The structure on which the thunk of each entry point hands over.
Layout ==
  [ ALLOCATEPAGESPACE |-> fs32_allocatepagespace_parms,
    CHDIR |-> fs32_chdir_parms,
    CHGFILEPTR |-> fs32_chgfileptr_parms,
    CLOSE |-> fs32_close_parms,
    COMMIT |-> fs32_commit_parms,
    DOPAGEIO |-> fs32_dopageio_parms,
    DELETE |-> fs32_delete_parms,
    EXIT |-> fs32_exit_parms,
    FILEATTRIBUTE |-> fs32_fileattribute_parms,
    FILEINFO |-> fs32_fileinfo_parms,
    FINDCLOSE |-> fs32_findclose_parms,
    FINDFIRST |-> fs32_findfirst_parms,
    FINDFROMNAME |-> fs32_findfromname_parms,
    FINDNEXT |-> fs32_findnext_parms,
    FLUSHBUF |-> fs32_flushbuf_parms,
    FSCTL |-> fs32_fsctl_parms,
    FSINFO |-> fs32_fsinfo_parms,
    IOCTL |-> fs32_ioctl_parms,
    MKDIR |-> fs32_mkdir_parms,
    MOUNT |-> fs32_mount_parms,
    MOVE |-> fs32_move_parms,
    NEWSIZE |-> fs32_newsize_parms,
    OPENCREATE |-> fs32_opencreate_parms,
    OPENPAGEFILE |-> fs32_openpagefile_parms,
    PATHINFO |-> fs32_pathinfo_parms,
    READ |-> fs32_read_parms,
    RMDIR |-> fs32_rmdir_parms,
    SHUTDOWN |-> fs32_shutdown_parms,
    WRITE |-> fs32_write_parms ]
=============================================================================
