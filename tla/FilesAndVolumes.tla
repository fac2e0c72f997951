---------------------------- MODULE FilesAndVolumes ----------------------------
(***************************************************************************)
(* What the file, deploy and resizevolume handlers do: TailFile of         *)
(* pkg/util/file.go, doDeployPackage and resizeVolume of                   *)
(* pkg/server/util.go. A file is a sequence of "x" and "newline".          *)
(***************************************************************************)
EXTENDS Integers, Selections, SequencesExt

CONSTANTS
    ChunkSize,      \* 8196 in the code
    MaxBufferSize,  \* the most bytes that TailFile is to read
    FileBytesLimit, \* 4096 in the code
    GrowTries,      \* 30 in the code
    ResizeTries     \* 15 in the code

ASSUME SizesAssumption ==
    {ChunkSize, MaxBufferSize, FileBytesLimit, GrowTries, ResizeTries} \subseteq Nat \ {0}

-------------------------------------------------------------------------------
(* TailFile. Its limits are whatever integers the request names.           *)

NewlinesAt(text) == {i \in DOMAIN text : text[i] = "newline"}
Newlines(text) == Cardinality(NewlinesAt(text))

\* What follows the n-th newline.
AfterLine(text, n) ==
    LET at == CHOOSE i \in NewlinesAt(text) :
                Cardinality({j \in NewlinesAt(text) : j <= i}) = n
    IN  SubSeq(text, at + 1, Len(text))

\* The k-th chunk from the end; the last one may be short.
Chunk(file, k) ==
    LET end == Len(file) - k * ChunkSize
        start == IF end > ChunkSize THEN end - ChunkSize ELSE 0 IN
    SubSeq(file, start + 1, end)

\* What is there after up to k chunks: each is read as a whole, so the text may
\* pass the limit of bytes by a part of a chunk.
TailLines(file, lines, bytes) ==
    LET tail[k \in 0 .. Len(file)] ==
            IF k = 0 THEN [seen |-> 0, text |-> <<>>]
            ELSE LET last == tail[k - 1]
                     done == (k - 1) * ChunkSize
                     chunk == Chunk(file, k - 1)
                     now == last.seen + Newlines(chunk) IN
                 IF last.seen >= lines \/ done >= Len(file) \/ done >= bytes THEN last
                 ELSE [seen |-> now,
                       text |-> (IF now > lines THEN AfterLine(chunk, now - lines) ELSE chunk)
                                  \o last.text]
    IN tail[Len(file)].text

TailBytes(file, bytes) ==
    SubSeq(file, IF Len(file) > bytes THEN Len(file) - bytes + 1 ELSE 1, Len(file))

BytesLimit(bytes) ==
    IF bytes = 0 \/ bytes > MaxBufferSize THEN MaxBufferSize ELSE bytes

\* A buffer of negative length panics, and the request gets no answer.
TailPanics(lines, bytes) == lines <= 0 /\ bytes < 0

TailFile(file, lines, bytes) ==
    IF lines > 0 THEN TailLines(file, lines, BytesLimit(bytes))
    ELSE TailBytes(file, BytesLimit(bytes))

\* fileHandler: what it passes on as the limit of bytes.
BytesAsked(lines, bytes) ==
    IF lines = 0 /\ bytes = 0 THEN FileBytesLimit ELSE bytes

-------------------------------------------------------------------------------
(* doDeployPackage: entries [name, kind, target, made] of the archive, and *)
(* what is below the package's directory, a function from names: "absent", *)
(* "dir", "symlink", a "file" of this package, a "part" of one, a file of  *)
(* an "earlier" package, or one that is "shared" by several names. Whether *)
(* a directory or a file can be made, "whole", in "part" or "not", is up   *)
(* to the file system.                                                     *)

IsLink(entry) == entry.kind \in {"symlink", "hardlink"}

\* What extracting a directory or a file makes of what is there. Mkdir changes
\* nothing that exists. WriteFile overwrites a file, with all the names it has; it
\* fails for a directory and goes where a symbolic link leads.
Extracted(entry, old) ==
    IF entry.made = "not" THEN old
    ELSE IF entry.kind = "dir" THEN (IF old = "absent" THEN "dir" ELSE old)
    ELSE IF old \in {"dir", "symlink", "shared"} THEN old
    ELSE IF entry.made = "part" THEN "part" ELSE "file"

\* The errors of Mkdir and WriteFile are not looked at.
ExtractEntry(files, entry) ==
    IF entry.kind \in {"dir", "file"}
    THEN [files EXCEPT ![entry.name] = Extracted(entry, @)]
    ELSE files

\* A link replaces what is in its place, and a hard link needs its target to be
\* there and no directory. Symbolic links are meant to point to something that
\* exists, and directories to be empty when a link takes their place.
MakeLink(state, link) ==
    IF ~state.ok THEN state
    ELSE LET there == [state.files EXCEPT ![link.name] = "absent"] IN
         IF link.kind = "symlink"
         THEN [ok |-> TRUE, files |-> [there EXCEPT ![link.name] = "symlink"]]
         ELSE IF there[link.target] \in {"absent", "dir"}
              THEN [ok |-> FALSE, files |-> there]
              ELSE [ok |-> TRUE,
                    files |-> [there EXCEPT ![link.name] = there[link.target]]]

\* (Mutant: links are made when they come up in the archive.)
DeployPackage_InOrder(entries, files) ==
    FoldLeft(LAMBDA s, e : IF IsLink(e) THEN MakeLink(s, e)
                           ELSE [s EXCEPT !.files = ExtractEntry(@, e)],
             [ok |-> TRUE, files |-> files], entries)

\* Links are made after everything else, for they may point to what comes later.
DeployPackage(entries, files) ==
    LET links == Pick(entries, {i \in DOMAIN entries : IsLink(entries[i])})
        extracted[n \in 0 .. Len(entries)] ==
            IF n = 0 THEN files ELSE ExtractEntry(extracted[n - 1], entries[n])
        linked[n \in 0 .. Len(links)] ==
            IF n = 0 THEN [ok |-> TRUE, files |-> extracted[Len(entries)]]
            ELSE MakeLink(linked[n - 1], links[n])
    IN linked[Len(links)]

-------------------------------------------------------------------------------
(* resizeVolume: what growpart and resize2fs would answer, one after the   *)
(* other.                                                                  *)

\* A program is called again as long as there is nothing to do for it yet.
Achieves(answers, tries, nothing, done) ==
    \E i \in 1 .. tries :
        answers[i] = done /\ \A j \in 1 .. i - 1 : answers[j] = nothing

\* A disk without partitions is not grown.
ResizeVolume(partitioned, growpart, resize2fs) ==
    /\ partitioned => Achieves(growpart, GrowTries, "nochange", "grown")
    /\ Achieves(resize2fs, ResizeTries, "nothing", "resized")

===============================================================================
