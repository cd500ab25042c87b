---------------------------- MODULE MCFileSystem ----------------------------
\* Model values for FileSystem.
EXTENDS FileSystem, TLC

CONSTANTS a, b

Does(call, path, new) == [call |-> call, path |-> path, new |-> new]

\* Programs make and remove files and directories in "/" and "/a".
TreeCalls ==
  {Does("creat", <<"/", a, a>>, <<>>), Does("mkdir", <<"/", a>>, <<>>),
   Does("unlink", <<"/", a>>, <<>>), Does("unlink", <<"/", a, a>>, <<>>),
   Does("open", <<"/", b>>, <<>>), Does("chdir", <<"/", a>>, <<>>),
   Does("link", <<"/", a, a>>, <<"/", b>>)}

\* A directory in a directory, and the way back up.
UpCalls ==
  {Does("mkdir", <<"/", a>>, <<>>), Does("mkdir", <<"/", a, a>>, <<>>),
   Does("unlink", <<"/", a>>, <<>>), Does("unlink", <<"/", a, a>>, <<>>),
   Does("chdir", <<"/", a, a>>, <<>>), Does("chdir", <<"..">>, <<>>)}

Symmetry == Permutations(Proc)
=============================================================================
