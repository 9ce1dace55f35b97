------------------------------- MODULE MCRftp -------------------------------
EXTENDS Rftp

OneFile == <<5>>
TwoFiles == <<5, 3>>

\* A file that is not there, a whole file, a window from inside a chunk to the end
\* of another, and a window past the end of the file.
Mixed == << <<"range", 2, 0, 1>>, <<"file", 1, 0, 0>>,
            <<"range", 1, 1, 3>>, <<"range", 1, 2, 4>> >>

\* Two files, one after the other.
Files == << <<"file", 1, 0, 0>>, <<"file", 2, 0, 0>> >>

\* The tokenizer, then a range of the weights, as the master fetches them.
FileThenRange == << <<"file", 2, 0, 0>>, <<"range", 1, 0, 4>> >>

OneRange == << <<"range", 1, 0, 3>> >>
=============================================================================
