-------------------------------- MODULE WebApi --------------------------------
(***************************************************************************)
(* The calls of the Web API about the items of a storage, as the Web UI    *)
(* makes them: one operator per method of web-api.service.ts, the choice *)
(* of the method in jobs.effects.ts, and what rclone does with the call.   *)
(***************************************************************************)
EXTENDS Paths

(* A file system of rclone: the remote, and a root within it.               *)
Fs(remote, root) == <<remote, Colon>> \o root

UploadFile(remote, dir, name) ==
  [cmd |-> "operations/uploadfile",
   from |-> <<>>, to |-> <<Fs(remote, Empty), dir, name>>]

MkdirAsync(remote, dir) ==
  [cmd |-> "operations/mkdir", from |-> <<>>, to |-> <<Fs(remote, Empty), dir>>]

DeleteFileAsync(remote, path) ==
  [cmd |-> "operations/deletefile", from |-> <<Fs(remote, Empty), path>>, to |-> <<>>]

DeleteFolderAsync(remote, path) ==
  [cmd |-> "operations/purge", from |-> <<Fs(remote, Empty), path>>, to |-> <<>>]

MoveFileAsync(remote, path, toRemote, toPath) ==
  [cmd |-> "operations/movefile",
   from |-> <<Fs(remote, Empty), path>>, to |-> <<Fs(toRemote, Empty), toPath>>]

(* A folder is a file system of its own.                                    *)
MoveFolderAsync(remote, path, toRemote, toPath) ==
  [cmd |-> "sync/move", from |-> <<Fs(remote, path)>>, to |-> <<Fs(toRemote, toPath)>>]

CopyFileAsync(remote, path, toRemote, toPath) ==
  [cmd |-> "operations/copyfile",
   from |-> <<Fs(remote, Empty), path>>, to |-> <<Fs(toRemote, Empty), toPath>>]

CopyFolderAsync(remote, path, toRemote, toPath) ==
  [cmd |-> "sync/copy", from |-> <<Fs(remote, path)>>, to |-> <<Fs(toRemote, toPath)>>]

(* The content of a file, by a URL that is put together as it comes: the    *)
(* server may see another path, or refuse it, and then it leads nowhere.    *)
FetchFileContent(remote, dir, name) ==
  LET path == JoinRemotePath(dir, name) IN
  [cmd |-> "GET", to |-> <<>>,
   from |-> IF UrlBreaks(path) /\ UrlRefused(path) THEN <<>>
            ELSE <<Fs(remote, Empty), IF UrlBreaks(path) THEN SeenPath(path) ELSE path>>]

(* Mutant of Delete: the path is the item's name, as if it started here.     *)
DeleteByName(here, item) ==
  [kind |-> IF item.isDir THEN "delete-folder" ELSE "delete-file",
   remote |-> here.remote, path |-> item.name]

(* The requests of the jobs store, and the method each is submitted with.   *)
Upload(here, dir, name) == [kind |-> "upload-file", remote |-> here.remote,
                            dir |-> dir, name |-> name]
Mkdir(here, dir)        == [kind |-> "mkdir", remote |-> here.remote, dir |-> dir]
Delete(here, item)      == [kind |-> IF item.isDir THEN "delete-folder" ELSE "delete-file",
                            remote |-> here.remote, path |-> PathOf(item.at)]
Move(here, item, to)    == [kind |-> IF item.isDir THEN "move-folder" ELSE "move-file",
                            remote |-> here.remote, path |-> PathOf(item.at), to |-> to]
Copy(here, item, to)    == [kind |-> IF item.isDir THEN "copy-folder" ELSE "copy-file",
                            remote |-> here.remote, path |-> PathOf(item.at), to |-> to]

SubmitJob(r) ==
  CASE r.kind = "upload-file"   -> UploadFile(r.remote, r.dir, r.name)
    [] r.kind = "mkdir"         -> MkdirAsync(r.remote, r.dir)
    [] r.kind = "delete-file"   -> DeleteFileAsync(r.remote, r.path)
    [] r.kind = "delete-folder" -> DeleteFolderAsync(r.remote, r.path)
    [] r.kind = "move-file"     -> MoveFileAsync(r.remote, r.path, r.remote, r.to)
    [] r.kind = "move-folder"   -> MoveFolderAsync(r.remote, r.path, r.remote, r.to)
    [] r.kind = "copy-file"     -> CopyFileAsync(r.remote, r.path, r.remote, r.to)
    [] r.kind = "copy-folder"   -> CopyFolderAsync(r.remote, r.path, r.remote, r.to)

-----------------------------------------------------------------------------
(* rclone's side: which kind of item a command takes, and where the texts   *)
(* lead.  The remote ends at the first colon; a path starts at the root.    *)

Verb(cmd) ==
  CASE cmd = "GET"                   -> [does |-> "get",    isDir |-> FALSE]
    [] cmd = "operations/uploadfile" -> [does |-> "put",    isDir |-> FALSE]
    [] cmd = "operations/mkdir"      -> [does |-> "put",    isDir |-> TRUE]
    [] cmd = "operations/deletefile" -> [does |-> "delete", isDir |-> FALSE]
    [] cmd = "operations/purge"      -> [does |-> "delete", isDir |-> TRUE]
    [] cmd = "operations/movefile"   -> [does |-> "move",   isDir |-> FALSE]
    [] cmd = "sync/move"             -> [does |-> "move",   isDir |-> TRUE]
    [] cmd = "operations/copyfile"   -> [does |-> "copy",   isDir |-> FALSE]
    [] cmd = "sync/copy"             -> [does |-> "copy",   isDir |-> TRUE]

Nowhere == [remote |-> "", names |-> <<>>]

RclonePlace(texts) ==
  IF texts = <<>> THEN Nowhere
  ELSE LET full == Join(texts, Slash)
       IN [remote |-> Head(full), names |-> Names(SubSeq(full, 3, Len(full)))]

Effect(call) ==
  [verb |-> Verb(call.cmd), from |-> RclonePlace(call.from), to |-> RclonePlace(call.to)]
=============================================================================
