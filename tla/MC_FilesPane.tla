--------------------------- MODULE MC_FilesPane ---------------------------
EXTENDS FilesPane
MCDirs == {"src", "old"}
MCPresent == {<<"src", "a">>, <<"src", "b">>}
MCNames == {"a", "b"}
=============================================================================
