-------------------------- MODULE MC_RequestLocks --------------------------
EXTENDS Progress, TLC

CONSTANTS a, b, c   \* uploads: two of new versions, one to an existing release

WorkerSymmetry == Permutations(Tx)

MCRows == 1..9
OneProject == {1}
MCReleasesRow == [p \in {1} |-> 2]
MCVersionRow == [p \in {1} |-> (a :> 3 @@ b :> 4)]
MCFileRow == [p \in {1} |-> (a :> 5 @@ b :> 6 @@ c :> 9)]
MCFilesRow == [p \in {1} |-> 8]

(* A file's name holds its version, so no name is uploaded both to an      *)
(* existing release and with a new one.                                    *)
Uploads ==
    {UploadRelease(1, a), UploadRelease(1, b), UploadFile(1, c),
     UploadWithUrls(1, c, NoneVerified), UploadWithUrls(1, c, OneVerified(1))}

(* Requests on a project that exists already. *)
ProjectRequests ==
    Uploads \cup {DeleteFile(1), DeleteRelease(1), YankRelease(1), SyncFile(1)}
=============================================================================
