CONSTANTS
    Lengths = {8, 11, 12, 13, 20, 21, 24, 25, 28, 32, 36, 37, 40, 41, 44, 48, 60, 64, 1031, 1032, 1033, 1040, 1048, 2048}
    Links = {0, 1, 255}
    Algos = {0, 1, 2}
    Paddings = {0, 7, 8, 16, 23, 31}
    Payloads = {0, 1, 8}
SPECIFICATION SrSpec
PROPERTY DeliversPayload MalformedHarmless
