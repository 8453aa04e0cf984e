SPECIFICATION Spec
CONSTANTS
    Tasks = {t1, t2}
    MaxPresses = 3
    Screens = {"people"}
    Statuses = {"SUCCESS"}
    SignalKeys = {"REACTION", "REPLY_TEXT"}
    Patterns = {p1}
    Emojis = {"e"}
    Texts = {"text"}
    BadTexts = {"text"}
    Users = {"root", "user"}
    Env = {"root"}
    Groups = {"orders", "other"}
    ChatOf <- MCChatOf
    Chats = {c1, c2}
    Topics = {0, 1}
    Stages = {"RECEIVED"}
SYMMETRY Symmetry
INVARIANTS EnvStaysSuper
CHECK_DEADLOCK FALSE
