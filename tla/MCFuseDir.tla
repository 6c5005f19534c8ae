------------------------------ MODULE MCFuseDir ------------------------------
(* A small instance of FuseDir for TLC: all operations on one directory.   *)
EXTENDS FuseDir, TLC

AllOps == {"lookup", "revalidate", "getattr", "access", "setattr", "create",
           "mknod", "link", "unlink", "rmdir", "rename", "exchange",
           "readdirplus", "get_dentry", "notify"}

Symmetry == Permutations(Names) \cup Permutations(Nodes)
            \cup Permutations(Threads)

=============================================================================
